---- MODULE Spec2Model ----
(***************************************************************************)
(* A model of the GraphRAG ingestion and retrieval pipeline:               *)
(*   core/pdf_processor.py   text extraction, chunking, embedding,         *)
(*                           per-chunk extraction and cross-chunk merge    *)
(*   services/neo4j_service.py   the graph store and the hybrid retriever  *)
(*   main.py                 load_pipeline                                 *)
(* Python strings are sequences of one-character strings, so that strip,   *)
(* lower, upper, slicing and the regular expression of the label           *)
(* normaliser are computed character by character.                         *)
(***************************************************************************)
EXTENDS Integers, Sequences, FiniteSets, TLC

VARIABLES
    \* ---- the graph database (nodes and edges written by Neo4jService)
    documents,      \* Document nodes: id -> [filename, content]
    chunkNodes,     \* Chunk nodes: id -> [text, index, embedding]
    entityNodes,    \* Entity nodes: name -> type
    hasChunk,       \* HAS_CHUNK edges <<document id, chunk id>>
    nextEdges,      \* NEXT edges <<chunk id, chunk id>>
    extractedFrom,  \* EXTRACTED_FROM edges <<entity name, chunk id>>
    relEdges,       \* entity-to-entity edges: <<from, label, to>> -> llm_type
    \* ---- one call of Neo4jService.create_relationship
    relPc,          \* "ready" before the call, "done" after it
    relCall,        \* the arguments of the call and the label it spliced
    relLog,         \* the calls of create_relationship made so far, in order
    \* ---- Neo4jService.__init__ / _connect, one per service instance
    connPc,         \* where the constructor of each instance stands
    attempt,        \* the loop variable of _connect
    attemptLog,     \* the outcome of every connection attempt made, in order
    delayLog,       \* the delay of every time.sleep made, in order
    graphOps,       \* the graph operations run on the instance, in order
    \* ---- load_pipeline and the functions of core/pdf_processor.py
    pc,             \* the statement the call stands at
    env,            \* what the external services answer during this call
    text,           \* extract_text_from_pdf's result
    chunks,         \* chunk_text's result (embed_text's argument)
    chunk_embeddings,   \* embed_text's result
    chunk_extractions,  \* extract_entities_per_chunk's result
    merged_data,    \* merge_entity_relationships' result
    doc_id,         \* the uuid of the run's document
    chunk_ids,      \* the uuids of the chunk nodes written so far
    written,        \* how many of the entity / relationship writes are made
    result,         \* what load_pipeline returned or raised
    uuids,          \* how many uuids uuid4 has handed out
    runs,           \* how many calls of load_pipeline were started
    lastRun,        \* the call before this one: its input, result, graph size
    search,         \* the last graphrag_search: its calls and its result
    \* ---- load_structured_data and the structured part of the graph
    sqlPc,          \* the statement load_structured_data stands at
    sqlIn,          \* the mapping of the agent, the tables, the provider
    node_idx,       \* how many node mappings of mapping.nodes are loaded
    rel_idx,        \* how many mappings of mapping.relationships are handled
    sqlCalls,       \* the calls made on the Neo4jService, in order
    structNodes,    \* structured nodes: <<label, key value>> -> properties
    structEdges,    \* edges between structured nodes <<node, type, node>>
    loads,          \* how many calls of load_structured_data were started
    firstLoad       \* the structured nodes and edges after the first call

graphVars == <<documents, chunkNodes, entityNodes, hasChunk, nextEdges,
               extractedFrom, relEdges>>
relVars == <<relPc, relCall, relLog>>
connVars == <<connPc, attempt, attemptLog, delayLog, graphOps>>
fnVars == <<pc, env, text, chunks, chunk_embeddings, chunk_extractions,
            merged_data>>
runVars == <<doc_id, chunk_ids, written, result, uuids, runs, lastRun, search>>
pipeVars == <<fnVars, runVars>>
sqlVars == <<sqlPc, sqlIn, node_idx, rel_idx, sqlCalls, structNodes, structEdges,
             loads, firstLoad>>
vars == <<graphVars, relVars, connVars, pipeVars, sqlVars>>

----------------------------------------------------------------------------
(* Strings *)

\* A string literal as the sequence of its characters.
Chars(s) == [i \in 1..Len(s) |-> SubSeq(s, i, i)]

LowerLetters == Chars("abcdefghijklmnopqrstuvwxyz")
UpperLetters == Chars("ABCDEFGHIJKLMNOPQRSTUVWXYZ")
DigitChars == {"0", "1", "2", "3", "4", "5", "6", "7", "8", "9"}
Whitespace == {" ", "\t", "\n", "\r"}

Range(f) == {f[i] : i \in DOMAIN f}

\* str.upper() and str.lower(), character by character
UpperChar(c) ==
    IF \E i \in 1..26 : LowerLetters[i] = c
    THEN UpperLetters[CHOOSE i \in 1..26 : LowerLetters[i] = c]
    ELSE c
LowerChar(c) ==
    IF \E i \in 1..26 : UpperLetters[i] = c
    THEN LowerLetters[CHOOSE i \in 1..26 : UpperLetters[i] = c]
    ELSE c
Upper(s) == [i \in 1..Len(s) |-> UpperChar(s[i])]
Lower(s) == [i \in 1..Len(s) |-> LowerChar(s[i])]

\* str.strip(chars): drop the leading and the trailing characters of `drop`
RECURSIVE LStrip(_, _)
LStrip(s, drop) ==
    IF s # <<>> /\ Head(s) \in drop THEN LStrip(Tail(s), drop) ELSE s
RECURSIVE RStrip(_, _)
RStrip(s, drop) ==
    IF s # <<>> /\ s[Len(s)] \in drop
    THEN RStrip(SubSeq(s, 1, Len(s) - 1), drop)
    ELSE s
StripOf(s, drop) == RStrip(LStrip(s, drop), drop)
Strip(s) == StripOf(s, Whitespace)

----------------------------------------------------------------------------
(* The states in which a part of the program is not running *)

NoCall == [called |-> FALSE]

EmptyGraph ==
    /\ documents = <<>>
    /\ chunkNodes = <<>>
    /\ entityNodes = <<>>
    /\ hasChunk = {}
    /\ nextEdges = {}
    /\ extractedFrom = {}
    /\ relEdges = <<>>

RelIdle == relPc = "off" /\ relCall = NoCall /\ relLog = <<>>

NoMerged == [entities |-> <<>>, relationships |-> <<>>]

NoResult == [kind |-> "none"]
NoRun == [ran |-> FALSE]
NoSearch == [searched |-> FALSE]

\* No call of load_pipeline was made.
RunIdle ==
    /\ doc_id = 0
    /\ chunk_ids = <<>>
    /\ written = 0
    /\ result = NoResult
    /\ uuids = 0
    /\ runs = 0
    /\ lastRun = NoRun
    /\ search = NoSearch

\* No call of the pipeline is in progress.
PipeIdle ==
    /\ pc = "idle"
    /\ env = [none |-> TRUE]
    /\ text = <<>>
    /\ chunks = <<>>
    /\ chunk_embeddings = <<>>
    /\ chunk_extractions = <<>>
    /\ merged_data = NoMerged
    /\ RunIdle

\* No call of load_structured_data was made.
NoInput == [none |-> TRUE]
SqlIdle ==
    /\ sqlPc = "off"
    /\ sqlIn = NoInput
    /\ node_idx = 0
    /\ rel_idx = 0
    /\ sqlCalls = <<>>
    /\ structNodes = <<>>
    /\ structEdges = {}
    /\ loads = 0
    /\ firstLoad = NoRun

\* The module-level instances: routes/upload.py and routes/chat.py each
\* construct a Neo4jService of their own.
Services == {"upload", "chat"}


\* The state of an instance whose constructor has returned.
ConnIdle ==
    /\ connPc = [s \in Services |-> "ready"]
    /\ attempt = [s \in Services |-> 0]
    /\ attemptLog = [s \in Services |-> <<"ok">>]
    /\ delayLog = [s \in Services |-> <<>>]
    /\ graphOps = [s \in Services |-> <<"_setup_vector_index">>]

----------------------------------------------------------------------------
(* Neo4jService._normalize_rel_type *)

RELATED == Chars("RELATED")
AllowedLabelChars == Range(UpperLetters) \cup DigitChars

\* the substitution with the '+' of the pattern lost: one underscore per
\* character
ReSubEachChar(s, inRun) ==
    [i \in 1..Len(s) |-> IF s[i] \in AllowedLabelChars THEN s[i] ELSE "_"]

\* re.sub(r'[^A-Z0-9]+', '_', s): every maximal run of characters outside
\* A-Z0-9 becomes one underscore. inRun says the previous character was
\* part of such a run.
RECURSIVE ReSubNonAlnum(_, _)
ReSubNonAlnum(s, inRun) ==
    IF s = <<>> THEN <<>>
    ELSE IF Head(s) \in AllowedLabelChars
         THEN <<Head(s)>> \o ReSubNonAlnum(Tail(s), FALSE)
         ELSE IF inRun THEN ReSubNonAlnum(Tail(s), TRUE)
              ELSE <<"_">> \o ReSubNonAlnum(Tail(s), TRUE)

PrefixLeadingDigit(s) ==
    IF s[1] \in DigitChars THEN Chars("REL_") \o s ELSE s

_normalize_rel_type(rel_type) ==
    IF rel_type = <<>> THEN RELATED
    ELSE LET s1 == Upper(Strip(rel_type))
             s2 == ReSubNonAlnum(s1, FALSE)
             s3 == StripOf(s2, {"_"})
         IN IF s3 = <<>> THEN RELATED ELSE PrefixLeadingDigit(s3)

----------------------------------------------------------------------------
(* Neo4jService.create_relationship *)

\* SET r.llm_type = $rel_type
LlmTypeOf(rel_type, rel_label) == rel_type

\* the two MATCH clauses with only one of them binding
BothMatchedEither(from_entity, to_entity) ==
    from_entity \in DOMAIN entityNodes \/ to_entity \in DOMAIN entityNodes

\* MATCH (e1:Entity {name: $from_name}) MATCH (e2:Entity {name: $to_name})
BothMatched(from_entity, to_entity) ==
    from_entity \in DOMAIN entityNodes /\ to_entity \in DOMAIN entityNodes

\* the edge merged on the phrase in place of the label
RelEdgesAfterCreateByPhrase(from_entity, to_entity, rel_type) ==
    LET key == <<from_entity, rel_type, to_entity>>
    IN IF BothMatched(from_entity, to_entity)
       THEN [k \in DOMAIN relEdges \cup {key} |->
                IF k = key THEN rel_type ELSE relEdges[k]]
       ELSE relEdges

\* MATCH both Entity nodes by name; MERGE the edge of the spliced label;
\* SET its llm_type. Nothing is written when either MATCH finds no node.
RelEdgesAfterCreate(from_entity, to_entity, rel_type) ==
    LET rel_label == _normalize_rel_type(rel_type)
        key == <<from_entity, rel_label, to_entity>>
    IN IF BothMatched(from_entity, to_entity)
       THEN [k \in DOMAIN relEdges \cup {key} |->
                IF k = key THEN LlmTypeOf(rel_type, rel_label) ELSE relEdges[k]]
       ELSE relEdges

----------------------------------------------------------------------------
(* One call of create_relationship *)

MaxPhraseLen == 4
PhraseAlphabet == {"a", "Z", "7", "_", " ", "!"}
ProofOfWorkPhrase == Chars("Prevents Through Proof of Work!!")
Phrases ==
    UNION {[1..n -> PhraseAlphabet] : n \in 0..MaxPhraseLen}
        \cup {ProofOfWorkPhrase}

Btc == Chars("Btc")
PoW == Chars("PoW")
Nakamoto == Chars("Nakamoto")

\* A graph that holds two entities, before one call of create_relationship.
RelInit ==
    /\ documents = <<>>
    /\ chunkNodes = <<>>
    /\ entityNodes = (Btc :> Chars("TECHNOLOGY")) @@ (PoW :> Chars("CONCEPT"))
    /\ hasChunk = {}
    /\ nextEdges = {}
    /\ extractedFrom = {}
    /\ relEdges = <<>>
    /\ relPc = "ready"
    /\ relCall = NoCall
    /\ relLog = <<>>
    /\ ConnIdle
    /\ PipeIdle
    /\ SqlIdle

\* the record of a call: its arguments and the label it spliced
CallOf(from_entity, to_entity, rel_type) ==
    [called |-> TRUE, from_entity |-> from_entity, to_entity |-> to_entity,
     rel_type |-> rel_type, rel_label |-> _normalize_rel_type(rel_type)]

CreateRelationship(from_entity, to_entity, rel_type) ==
    /\ relPc = "ready"
    /\ relEdges' = RelEdgesAfterCreate(from_entity, to_entity, rel_type)
    /\ relCall' = CallOf(from_entity, to_entity, rel_type)
    /\ relLog' = Append(relLog, CallOf(from_entity, to_entity, rel_type))
    /\ relPc' = "done"
    /\ UNCHANGED <<documents, chunkNodes, entityNodes, hasChunk, nextEdges,
                   extractedFrom>>
    /\ UNCHANGED <<connVars, pipeVars, sqlVars>>

RelNext ==
    \E from_entity \in {Btc, Nakamoto}, to_entity \in {PoW}, rel_type \in Phrases :
        CreateRelationship(from_entity, to_entity, rel_type)

SpecRel == RelInit /\ [][RelNext]_vars

----------------------------------------------------------------------------
(* A sequence of calls of create_relationship *)

MaxRelCalls == 3
SomePhrases ==
    {Chars("prevents"), Chars("Prevents!"), Chars("created by"), <<>>}

\* A graph that holds the entities Btc and PoW and no entity Nakamoto.
RelSeqInit ==
    /\ documents = <<>>
    /\ chunkNodes = <<>>
    /\ entityNodes = (Btc :> Chars("TECHNOLOGY")) @@ (PoW :> Chars("CONCEPT"))
    /\ hasChunk = {}
    /\ nextEdges = {}
    /\ extractedFrom = {}
    /\ relEdges = <<>>
    /\ relPc = "open"
    /\ relCall = NoCall
    /\ relLog = <<>>
    /\ ConnIdle
    /\ PipeIdle
    /\ SqlIdle

CreateRelationshipCall(from_entity, to_entity, rel_type) ==
    /\ relPc = "open"
    /\ Len(relLog) < MaxRelCalls
    /\ relEdges' = RelEdgesAfterCreate(from_entity, to_entity, rel_type)
    /\ relCall' = CallOf(from_entity, to_entity, rel_type)
    /\ relLog' = Append(relLog, CallOf(from_entity, to_entity, rel_type))
    /\ UNCHANGED relPc
    /\ UNCHANGED <<documents, chunkNodes, entityNodes, hasChunk, nextEdges,
                   extractedFrom>>
    /\ UNCHANGED <<connVars, pipeVars, sqlVars>>

RelSeqNext ==
    \E from_entity \in {Btc, Nakamoto}, to_entity \in {PoW, Btc},
       rel_type \in SomePhrases :
        CreateRelationshipCall(from_entity, to_entity, rel_type)

SpecRelSeq == RelSeqInit /\ [][RelSeqNext]_vars

----------------------------------------------------------------------------
(* Neo4jService.__init__, _connect, _setup_vector_index *)

max_retries == 5
retry_delay == 2

\* how many operations after construction the model follows per instance
MaxGraphOps == 2

\* the retry test with its bound off by one
IsRetryAlways(a) == a < max_retries

\* `if attempt < max_retries - 1`: sleep and retry; else re-raise
IsRetry(a) == a < max_retries - 1

Connected(s) ==
    attemptLog[s] # <<>> /\ attemptLog[s][Len(attemptLog[s])] = "ok"

ConnInit ==
    /\ EmptyGraph
    /\ RelIdle
    /\ PipeIdle
    /\ SqlIdle
    /\ connPc = [s \in Services |-> "attempt"]
    /\ attempt = [s \in Services |-> 0]
    /\ attemptLog = [s \in Services |-> <<>>]
    /\ delayLog = [s \in Services |-> <<>>]
    /\ graphOps = [s \in Services |-> <<>>]

\* The try block of one loop iteration succeeds: break, and __init__ goes on
\* to _setup_vector_index.
AttemptOk(s) ==
    /\ connPc[s] = "attempt"
    /\ attemptLog' = [attemptLog EXCEPT ![s] = Append(@, "ok")]
    /\ connPc' = [connPc EXCEPT ![s] = "setup_index"]
    /\ UNCHANGED <<attempt, delayLog, graphOps>>
    /\ UNCHANGED <<graphVars, relVars, sqlVars, pipeVars>>

\* The try block raises: sleep before the next iteration, or re-raise.
AttemptFail(s) ==
    /\ connPc[s] = "attempt"
    /\ attemptLog' = [attemptLog EXCEPT ![s] = Append(@, "fail")]
    /\ connPc' = [connPc EXCEPT ![s] =
                    IF IsRetry(attempt[s]) THEN "sleep" ELSE "raised"]
    /\ UNCHANGED <<attempt, delayLog, graphOps>>
    /\ UNCHANGED <<graphVars, relVars, sqlVars, pipeVars>>

\* time.sleep(retry_delay), then the next value of range(max_retries); when
\* the range is exhausted the loop ends and _connect returns.
Sleep(s) ==
    /\ connPc[s] = "sleep"
    /\ delayLog' = [delayLog EXCEPT ![s] = Append(@, retry_delay)]
    /\ attempt' = [attempt EXCEPT ![s] = @ + 1]
    /\ connPc' = [connPc EXCEPT ![s] =
                    IF attempt[s] + 1 < max_retries THEN "attempt"
                    ELSE "setup_index"]
    /\ UNCHANGED <<attemptLog, graphOps>>
    /\ UNCHANGED <<graphVars, relVars, sqlVars, pipeVars>>

\* _setup_vector_index: the CREATE VECTOR INDEX statement; a failure of the
\* statement is caught and printed.
SetupVectorIndex(s) ==
    /\ connPc[s] = "setup_index"
    /\ graphOps' = [graphOps EXCEPT ![s] = Append(@, "_setup_vector_index")]
    /\ connPc' = [connPc EXCEPT ![s] = "ready"]
    /\ UNCHANGED <<attempt, attemptLog, delayLog>>
    /\ UNCHANGED <<graphVars, relVars, sqlVars, pipeVars>>

\* Any later operation of a constructed instance.
GraphOperation(s, op) ==
    /\ connPc[s] = "ready"
    /\ Len(graphOps[s]) <= MaxGraphOps
    /\ graphOps' = [graphOps EXCEPT ![s] = Append(@, op)]
    /\ UNCHANGED <<connPc, attempt, attemptLog, delayLog>>
    /\ UNCHANGED <<graphVars, relVars, sqlVars, pipeVars>>

ConnNext ==
    \E s \in Services :
        \/ AttemptOk(s)
        \/ AttemptFail(s)
        \/ Sleep(s)
        \/ SetupVectorIndex(s)
        \/ \E op \in {"create_indexes", "graphrag_search"} : GraphOperation(s, op)

SpecConn == ConnInit /\ [][ConnNext]_vars

\* Every step of a constructor that has not finished is eventually taken:
\* the calls are synchronous and nothing else runs in the thread.
ConstructorStep(s) ==
    AttemptOk(s) \/ AttemptFail(s) \/ Sleep(s) \/ SetupVectorIndex(s)
SpecConnFair ==
    SpecConn /\ \A s \in Services : WF_vars(ConstructorStep(s))

----------------------------------------------------------------------------
(* core/pdf_processor.py: embed_text *)

\* The length of the zero vector ([0.0] * 1536) and of the vectors of the
\* embedding model.
EMBED_DIM == 1536

\* A vector is kept as its length, whether it is all zero, and the text the
\* provider computed it from.
ZeroVector == [dim |-> EMBED_DIM, zero |-> TRUE, of |-> <<>>]
ProviderVector(t) == [dim |-> EMBED_DIM, zero |-> FALSE, of |-> t]

\* The provider's answers as its contract gives them: one item per input,
\* in input order.
FailedResponse == [ok |-> FALSE]
BatchResponse(texts) ==
    [ok |-> TRUE,
     data |-> [i \in 1..Len(texts) |-> [embedding |-> ProviderVector(texts[i])]]]
ItemResponse(t) == [ok |-> TRUE, data |-> <<[embedding |-> ProviderVector(t)]>>]

\* the fallback loop with `continue` in place of the zero vector
RECURSIVE EmbedIndividuallySkipping(_, _)
EmbedIndividuallySkipping(texts, items) ==
    IF texts = <<>> THEN <<>>
    ELSE (IF Head(items).ok THEN <<Head(items).data[1].embedding>> ELSE <<>>)
         \o EmbedIndividuallySkipping(Tail(texts), Tail(items))

\* The fallback loop: one request per text; a request that raises appends
\* [0.0] * 1536.
RECURSIVE EmbedIndividually(_, _)
EmbedIndividually(texts, items) ==
    IF texts = <<>> THEN <<>>
    ELSE <<IF Head(items).ok THEN Head(items).data[1].embedding ELSE ZeroVector>>
         \o EmbedIndividually(Tail(texts), Tail(items))

\* batch: the answer to the batch request; items: the answers to the
\* per-text requests, were they made
embed_text(texts, batch, items) ==
    IF texts = <<>> THEN <<>>
    ELSE IF batch.ok
         THEN [i \in 1..Len(batch.data) |-> batch.data[i].embedding]
         ELSE EmbedIndividually(texts, items)

\* ---- embed_text on its own
MaxTexts == 3
SomeTexts == {Chars("a"), Chars("b")}
TextLists == UNION {[1..n -> SomeTexts] : n \in 0..MaxTexts}

EmbedInit ==
    /\ EmptyGraph /\ RelIdle /\ ConnIdle /\ SqlIdle
    /\ pc = "embed_text"
    /\ chunks \in TextLists
    /\ \E batch \in {FailedResponse, BatchResponse(chunks)} :
       \E failed \in SUBSET (1..Len(chunks)) :
          env = [batch |-> batch,
                 items |-> [i \in 1..Len(chunks) |->
                              IF i \in failed THEN FailedResponse
                              ELSE ItemResponse(chunks[i])]]
    /\ text = <<>>
    /\ chunk_embeddings = <<>>
    /\ chunk_extractions = <<>>
    /\ merged_data = NoMerged
    /\ RunIdle

EmbedText ==
    /\ pc = "embed_text"
    /\ chunk_embeddings' = embed_text(chunks, env.batch, env.items)
    /\ pc' = "returned"
    /\ UNCHANGED <<env, text, chunks, chunk_extractions, merged_data>>
    /\ UNCHANGED <<graphVars, relVars, sqlVars, connVars, runVars>>

SpecEmbed == EmbedInit /\ [][EmbedText]_vars

----------------------------------------------------------------------------
(* core/pdf_processor.py: chunk_text *)

fallback_size == 1000

Min(a, b) == IF a < b THEN a ELSE b

RECURSIVE Concat(_)
Concat(seqs) == IF seqs = <<>> THEN <<>> ELSE Head(seqs) \o Concat(Tail(seqs))

\* the windows one character too long: text[i:i + fallback_size + 1]
FallbackSlicesOverlapping(t) ==
    [j \in 1..((Len(t) + fallback_size - 1) \div fallback_size) |->
        SubSeq(t, (j - 1) * fallback_size + 1, Min(j * fallback_size + 1, Len(t)))]

\* [text[i:i + fallback_size] for i in range(0, len(text), fallback_size)]
FallbackSlices(t) ==
    [j \in 1..((Len(t) + fallback_size - 1) \div fallback_size) |->
        SubSeq(t, (j - 1) * fallback_size + 1, Min(j * fallback_size, Len(t)))]

\* chunker: what AgenticChunking.chunk does with the document: it raises, or
\* it returns chunks whose contents are chunker.contents
chunk_text(t, chunker) ==
    IF chunker.raises THEN FallbackSlices(t) ELSE chunker.contents

\* ---- chunk_text on its own
MaxTextLen == 2050
TextPeriod == Chars("abcdefg")
\* kind "varied": the character at position i is decided by i modulo 7, so
\* any two windows of 1000 characters that start 1000 apart differ;
\* kind "flat": the same character everywhere.
TextOf(n, kind) ==
    [i \in 1..n |-> IF kind = "varied" THEN TextPeriod[(i % 7) + 1] ELSE "x"]
\* an answer of the chunker: the text cut in two
CutInTwo(t) ==
    IF Len(t) < 2 THEN <<t>>
    ELSE <<SubSeq(t, 1, Len(t) \div 2), SubSeq(t, Len(t) \div 2 + 1, Len(t))>>

ChunkInit ==
    /\ EmptyGraph /\ RelIdle /\ ConnIdle /\ SqlIdle
    /\ pc = "chunk_text"
    /\ \E n \in 0..MaxTextLen, kind \in {"varied", "flat"} : text = TextOf(n, kind)
    /\ env \in {[chunker |-> [raises |-> TRUE]],
                [chunker |-> [raises |-> FALSE, contents |-> CutInTwo(text)]]}
    /\ chunks = <<>>
    /\ chunk_embeddings = <<>>
    /\ chunk_extractions = <<>>
    /\ merged_data = NoMerged
    /\ RunIdle

ChunkText ==
    /\ pc = "chunk_text"
    /\ chunks' = chunk_text(text, env.chunker)
    /\ pc' = "returned"
    /\ UNCHANGED <<env, text, chunk_embeddings, chunk_extractions, merged_data>>
    /\ UNCHANGED <<graphVars, relVars, sqlVars, connVars, runVars>>

SpecChunk == ChunkInit /\ [][ChunkText]_vars

----------------------------------------------------------------------------
(* core/pdf_processor.py: extract_entities_from_chunk,                     *)
(* extract_entities_per_chunk, merge_entity_relationships                  *)

generic_terms ==
    {Chars("the"), Chars("this"), Chars("that"), Chars("these"),
     Chars("those"), Chars("it"), Chars("its"), Chars("system"),
     Chars("method"), Chars("approach"), Chars("technique"), Chars("process")}

generic_rel_types ==
    {Chars("related"), Chars("connected"), Chars("associated"),
     Chars("linked"), Chars("has"), Chars("uses"), Chars("involves")}

Entity(name, type) == [name |-> name, type |-> type]
Relationship(from_entity, to_entity, type) ==
    [from_entity |-> from_entity, to_entity |-> to_entity, type |-> type]

\* what extraction_agent.run gives for one chunk: it raises, or its content
\* is not an ExtractedEntities, or it is one
LlmRaises == [kind |-> "raise"]
LlmMalformed == [kind |-> "malformed"]
LlmAnswer(entities, relationships) ==
    [kind |-> "ok", entities |-> entities, relationships |-> relationships]

EmptyExtraction == [entities |-> <<>>, relationships |-> <<>>]

\* the stoplist test on the name as the model wrote it, without lower()
QualityEntitiesExactCase(entities) ==
    SelectSeq(entities,
              LAMBDA e : Len(e.name) >= 3 /\ e.name \notin generic_terms)

QualityEntities(entities) ==
    SelectSeq(entities,
              LAMBDA e : Len(e.name) >= 3 /\ Lower(e.name) \notin generic_terms)

\* the endpoint test with `or` in place of `and`
EndpointsKnownEither(rel, entity_names) ==
    rel.from_entity \in entity_names \/ rel.to_entity \in entity_names

\* rel.from_entity in entity_names and rel.to_entity in entity_names
EndpointsKnown(rel, entity_names) ==
    rel.from_entity \in entity_names /\ rel.to_entity \in entity_names

\* the endpoint test alone, without the test of the type
QualityRelationshipsAnyType(relationships, quality_entities) ==
    LET entity_names == {e.name : e \in Range(quality_entities)}
    IN SelectSeq(relationships, LAMBDA rel : EndpointsKnown(rel, entity_names))

QualityRelationships(relationships, quality_entities) ==
    LET entity_names == {e.name : e \in Range(quality_entities)}
    IN SelectSeq(relationships,
                 LAMBDA rel : /\ EndpointsKnown(rel, entity_names)
                              /\ Lower(rel.type) \notin generic_rel_types)

\* the try block without its except branch
extract_entities_from_chunk_uncaught(answer) ==
    IF answer.kind = "ok"
    THEN LET quality_entities == QualityEntities(answer.entities)
         IN [entities |-> quality_entities,
             relationships |->
                 QualityRelationships(answer.relationships, quality_entities)]
    ELSE [raised |-> "extraction failed"]

\* The body of the try block, and the except branch that returns the empty
\* result. The prompt built from the chunk and its neighbours decides
\* nothing here: the answer of the model is given.
extract_entities_from_chunk(answer) ==
    IF answer.kind = "ok"
    THEN LET quality_entities == QualityEntities(answer.entities)
         IN [entities |-> quality_entities,
             relationships |->
                 QualityRelationships(answer.relationships, quality_entities)]
    ELSE EmptyExtraction

\* the record with the chunk_index of the first chunk whatever the chunk
ChunkExtractionFirstIndex(i, chunk, data) ==
    [chunk_index |-> 0, chunk_text |-> chunk,
     entities |-> data.entities, relationships |-> data.relationships]

\* The record one iteration of the loop of extract_entities_per_chunk
\* appends for chunk i (counted from 1; chunk_index counts from 0).
ChunkExtraction(i, chunk, data) ==
    [chunk_index |-> i - 1, chunk_text |-> chunk,
     entities |-> data.entities, relationships |-> data.relationships]

\* a call that raised instead of returning
Raised(outcome) == "raised" \in DOMAIN outcome

\* entities_map written again at every occurrence of a name
RECURSIVE MergeEntitiesLastWins(_, _)
MergeEntitiesLastWins(entities, acc) ==
    IF entities = <<>> THEN acc
    ELSE LET entity == Head(entities)
             same(a) == Lower(Strip(a.name)) = Lower(Strip(entity.name))
         IN MergeEntitiesLastWins(Tail(entities),
               IF \E i \in 1..Len(acc) : same(acc[i])
               THEN [i \in 1..Len(acc) |-> IF same(acc[i]) THEN entity ELSE acc[i]]
               ELSE Append(acc, entity))

\* entities_map: the first entity of every lower-cased stripped name, in
\* insertion order
RECURSIVE MergeEntities(_, _)
MergeEntities(entities, acc) ==
    IF entities = <<>> THEN acc
    ELSE LET entity == Head(entities)
             normalized_name == Strip(entity.name)
             keys == {Strip(a.name) : a \in Range(acc)}
         IN MergeEntities(Tail(entities),
               IF Lower(normalized_name) \notin {Lower(k) : k \in keys}
               THEN Append(acc, entity)
               ELSE acc)

\* the tuple without strip() and lower()
RelTupleExact(rel) == <<rel.from_entity, rel.to_entity, rel.type>>

RelTuple(rel) ==
    <<Strip(rel.from_entity), Strip(rel.to_entity), Strip(Lower(rel.type))>>

\* relationships_set / relationships_list
RECURSIVE MergeRelationships(_, _)
MergeRelationships(relationships, acc) ==
    IF relationships = <<>> THEN acc
    ELSE LET rel == Head(relationships)
         IN MergeRelationships(Tail(relationships),
               IF RelTuple(rel) \notin {RelTuple(a) : a \in Range(acc)}
               THEN Append(acc, rel)
               ELSE acc)

merge_entity_relationships(extractions) ==
    [entities |->
        MergeEntities(Concat([i \in 1..Len(extractions) |-> extractions[i].entities]),
                      <<>>),
     relationships |->
        MergeRelationships(
            Concat([i \in 1..Len(extractions) |-> extractions[i].relationships]),
            <<>>)]

\* ---- extraction and merge on their own
MaxRawEntities == 2
MaxRawRels == 1
MaxExtractChunks == 3

TECHNOLOGY == Chars("TECHNOLOGY")
CONCEPT == Chars("CONCEPT")
PERSON == Chars("PERSON")
LowerBtc == Chars("btc")
SpaceBtc == Chars(" Btc")

EntityPool ==
    {Entity(Btc, TECHNOLOGY), Entity(LowerBtc, CONCEPT), Entity(SpaceBtc, CONCEPT),
     Entity(PoW, CONCEPT), Entity(Chars("The"), CONCEPT), Entity(Chars("it"), CONCEPT),
     Entity(Chars("AI"), TECHNOLOGY), Entity(Chars("System"), CONCEPT)}
RelPool ==
    {Relationship(Btc, PoW, Chars("prevents")),
     Relationship(LowerBtc, PoW, Chars("Prevents ")),
     Relationship(SpaceBtc, PoW, Chars("prevents")),
     Relationship(Btc, Chars("The"), Chars("prevents")),
     Relationship(Btc, PoW, Chars("Uses")),
     Relationship(PoW, Nakamoto, Chars("created by"))}

\* every answer with at most MaxRawEntities entities and MaxRawRels
\* relationships of the pools
RawAnswers ==
    {LlmAnswer(es, rs) :
        es \in UNION {[1..n -> EntityPool] : n \in 0..MaxRawEntities},
        rs \in UNION {[1..n -> RelPool] : n \in 0..MaxRawRels}}

\* the answers given to the chunks of a text of several chunks
ChunkAnswers ==
    {LlmRaises, LlmMalformed,
     LlmAnswer(<<Entity(Btc, TECHNOLOGY), Entity(PoW, CONCEPT)>>,
               <<Relationship(Btc, PoW, Chars("prevents"))>>),
     LlmAnswer(<<Entity(LowerBtc, CONCEPT), Entity(PoW, CONCEPT)>>,
               <<Relationship(LowerBtc, PoW, Chars("Prevents "))>>),
     LlmAnswer(<<Entity(SpaceBtc, PERSON), Entity(PoW, CONCEPT), Entity(Chars("The"), CONCEPT)>>,
               <<Relationship(SpaceBtc, PoW, Chars("prevents")),
                 Relationship(SpaceBtc, Chars("The"), Chars("prevents")),
                 Relationship(PoW, SpaceBtc, Chars("Uses"))>>),
     LlmAnswer(<<Entity(Nakamoto, PERSON), Entity(Btc, TECHNOLOGY)>>,
               <<Relationship(Nakamoto, Btc, Chars("created")),
                 Relationship(Btc, PoW, Chars("prevents"))>>)}

ChunkName(i) == <<"c", CHOOSE d \in DigitChars : d = ToString(i)>>

ExtractInit ==
    /\ EmptyGraph /\ RelIdle /\ ConnIdle /\ SqlIdle
    /\ pc = "extract"
    /\ \E n \in 1..MaxExtractChunks :
          /\ chunks = [i \in 1..n |-> ChunkName(i)]
          /\ \E answers \in [1..n -> IF n = 1 THEN RawAnswers \cup ChunkAnswers
                                              ELSE ChunkAnswers] :
                env = [llm |-> answers]
    /\ text = <<>>
    /\ chunk_embeddings = <<>>
    /\ chunk_extractions = <<>>
    /\ merged_data = NoMerged
    /\ RunIdle

\* one iteration of the loop of extract_entities_per_chunk
ExtractChunk ==
    /\ pc = "extract"
    /\ LET i == Len(chunk_extractions) + 1
           data == extract_entities_from_chunk(env.llm[i])
       IN IF Raised(data)
          THEN pc' = "raised" /\ UNCHANGED chunk_extractions
          ELSE /\ chunk_extractions' =
                     Append(chunk_extractions, ChunkExtraction(i, chunks[i], data))
               /\ pc' = IF i = Len(chunks) THEN "merge" ELSE "extract"
    /\ UNCHANGED <<env, text, chunks, chunk_embeddings, merged_data>>
    /\ UNCHANGED <<graphVars, relVars, sqlVars, connVars, runVars>>

MergeExtractions ==
    /\ pc = "merge"
    /\ merged_data' = merge_entity_relationships(chunk_extractions)
    /\ pc' = "returned"
    /\ UNCHANGED <<env, text, chunks, chunk_embeddings, chunk_extractions>>
    /\ UNCHANGED <<graphVars, relVars, sqlVars, connVars, runVars>>

ExtractNext == ExtractChunk \/ MergeExtractions

SpecExtract == ExtractInit /\ [][ExtractNext]_vars

----------------------------------------------------------------------------
(* core/pdf_processor.py: extract_text_from_pdf *)

EmptyPdf == Chars("Empty PDF")
BlankLine == <<"\n", "\n">>

RECURSIVE Join(_, _)
Join(parts, sep) ==
    IF parts = <<>> THEN <<>>
    ELSE IF Len(parts) = 1 THEN parts[1]
    ELSE parts[1] \o sep \o Join(Tail(parts), sep)

Page(t) == [raises |-> FALSE, text |-> Chars(t)]
UnreadablePage == [raises |-> TRUE, text |-> <<>>]

\* the page texts appended as extract_text returned them
PageTextsUnstripped(pages) ==
    LET kept == SelectSeq(pages, LAMBDA page : ~page.raises /\ Strip(page.text) # <<>>)
    IN [i \in 1..Len(kept) |-> kept[i].text]

\* a page: its extract_text raises, or returns page.text
PageTexts(pages) ==
    LET kept == SelectSeq(pages, LAMBDA page : ~page.raises /\ Strip(page.text) # <<>>)
    IN [i \in 1..Len(kept) |-> Strip(kept[i].text)]

\* pdf.opens: PdfReader(file_path) and the walk over its pages do not raise
extract_text_from_pdf(pdf) ==
    IF ~pdf.opens THEN [raised |-> "PdfReadError"]
    ELSE LET text_content == PageTexts(pdf.pages)
         IN [text |-> IF text_content # <<>> THEN Join(text_content, BlankLine)
                      ELSE EmptyPdf]

\* ---- extract_text_from_pdf on its own
MaxPages == 3
SomePages ==
    {UnreadablePage, Page(""), Page("  "), Page(" a "), Page("b\n"), Page("c d")}
PageLists == UNION {[1..n -> SomePages] : n \in 0..MaxPages}

PdfInit ==
    /\ EmptyGraph /\ RelIdle /\ ConnIdle /\ SqlIdle
    /\ pc = "extract_text_from_pdf"
    /\ \E opens \in BOOLEAN, pages \in PageLists :
          env = [pdf |-> [opens |-> opens, pages |-> pages]]
    /\ text = <<>>
    /\ chunks = <<>>
    /\ chunk_embeddings = <<>>
    /\ chunk_extractions = <<>>
    /\ merged_data = NoMerged
    /\ RunIdle

ExtractText ==
    /\ pc = "extract_text_from_pdf"
    /\ LET extracted == extract_text_from_pdf(env.pdf)
       IN IF Raised(extracted)
          THEN pc' = "raised" /\ UNCHANGED text
          ELSE pc' = "returned" /\ text' = extracted.text
    /\ UNCHANGED <<env, chunks, chunk_embeddings, chunk_extractions, merged_data>>
    /\ UNCHANGED <<graphVars, relVars, sqlVars, connVars, runVars>>

SpecPdf == PdfInit /\ [][ExtractText]_vars

----------------------------------------------------------------------------
(* The writes of Neo4jService, as the Cypher statements make them *)

\* MERGE (d:Document {id}) SET d.filename, d.content
DocumentsAfterCreate(id, filename, content) ==
    [d \in DOMAIN documents \cup {id} |->
        IF d = id THEN [filename |-> filename, content |-> content]
        ELSE documents[d]]

\* MERGE (c:Chunk {id}) SET c.text, c.index, c.embedding
ChunkNodesAfterCreate(chunk_id, chunk, chunk_index, embedding) ==
    [c \in DOMAIN chunkNodes \cup {chunk_id} |->
        IF c = chunk_id
        THEN [text |-> chunk, index |-> chunk_index, embedding |-> embedding]
        ELSE chunkNodes[c]]

\* WITH c MATCH (d:Document {id}) MERGE (d)-[:HAS_CHUNK]->(c)
HasChunkAfterCreate(chunk_id, document_id) ==
    IF document_id \in DOMAIN documents
    THEN hasChunk \cup {<<document_id, chunk_id>>}
    ELSE hasChunk

\* the loop over range(len(chunk_ids) - 2)
NextEdgesAfterCreateShort(ids) ==
    nextEdges \cup {<<ids[i], ids[i + 1]>> : i \in 1..(Len(ids) - 2)}

\* for i in range(len(chunk_ids) - 1): MATCH c1, MATCH c2, MERGE (c1)-[:NEXT]->(c2)
NextEdgesAfterCreate(ids) ==
    nextEdges \cup
        {<<ids[i], ids[i + 1]>> : i \in {j \in 1..(Len(ids) - 1) :
                                          /\ ids[j] \in DOMAIN chunkNodes
                                          /\ ids[j + 1] \in DOMAIN chunkNodes}}

\* MERGE (e:Entity {name}) SET e.type: the name is matched as it is written
EntityNodesAfterCreate(entity_name, entity_type) ==
    [n \in DOMAIN entityNodes \cup {entity_name} |->
        IF n = entity_name THEN entity_type ELSE entityNodes[n]]

\* the provenance edge merged on the entity alone
ExtractedFromAfterCreateOnce(entity_name, chunk_id) ==
    IF chunk_id \in DOMAIN chunkNodes /\ \A e \in extractedFrom : e[1] # entity_name
    THEN extractedFrom \cup {<<entity_name, chunk_id>>}
    ELSE extractedFrom

\* WITH e MATCH (c:Chunk {id}) MERGE (e)-[:EXTRACTED_FROM]->(c)
ExtractedFromAfterCreate(entity_name, chunk_id) ==
    IF chunk_id \in DOMAIN chunkNodes
    THEN extractedFrom \cup {<<entity_name, chunk_id>>}
    ELSE extractedFrom

----------------------------------------------------------------------------
(* main.py: load_pipeline *)

\* what load_pipeline hands back: a dict it returns, or an exception
Returned(value) == [kind |-> "return", value |-> value]
Propagated(exception) == [kind |-> "raise", exception |-> exception]

FailureDict(error, id) == [success |-> FALSE, error |-> error, doc_id |-> id]
SuccessDict(id, filename, stats) ==
    [success |-> TRUE, doc_id |-> id, filename |-> filename, stats |-> stats]

Succeeded(r) == r.kind = "return" /\ r.value.success

\* ---- the documents and the answers of the services during one call


\* what the chunker, the embedding provider, the extraction agent and the
\* database do during a call
NoFaults ==
    [chunker_raises |-> FALSE, batch_ok |-> TRUE, failed_items |-> {},
     vector_dim |-> EMBED_DIM, batch_missing |-> 0,
     llm_raises |-> {}, llm_malformed |-> {}, store_raises |-> FALSE]

\* the length of the vectors of another embedding model
OtherDim == 2 * EMBED_DIM

Faults ==
    {NoFaults,
     [NoFaults EXCEPT !.chunker_raises = TRUE],
     [NoFaults EXCEPT !.batch_ok = FALSE],
     [NoFaults EXCEPT !.batch_ok = FALSE, !.failed_items = {2}],
     [NoFaults EXCEPT !.vector_dim = OtherDim],
     [NoFaults EXCEPT !.batch_missing = 1],
     [NoFaults EXCEPT !.llm_raises = {2}],
     [NoFaults EXCEPT !.llm_malformed = {2}],
     [NoFaults EXCEPT !.llm_raises = {1}, !.llm_malformed = {3}],
     [NoFaults EXCEPT !.llm_raises = {1, 2, 3}],
     [NoFaults EXCEPT !.store_raises = TRUE]}

\* a file that is no PDF
CorruptPdf ==
    [filename |-> "corrupt.pdf", pdf |-> [opens |-> FALSE, pages |-> <<>>],
     contents |-> <<>>, answers |-> <<>>]
\* a PDF with no text on its pages
BlankPdf ==
    [filename |-> "blank.pdf",
     pdf |-> [opens |-> TRUE, pages |-> <<Page("  "), UnreadablePage>>],
     contents |-> <<>>, answers |-> <<>>]
\* a PDF whose only page reads "Empty PDF"
SentinelPdf ==
    [filename |-> "sentinel.pdf",
     pdf |-> [opens |-> TRUE, pages |-> <<Page(" Empty PDF ")>>],
     contents |-> <<Chars("Empty PDF")>>, answers |-> <<LlmAnswer(<<>>, <<>>)>>]
\* a PDF of three pages, the second unreadable; three chunks; "Btc" in the
\* first chunk is "btc" in the second, which names "PoW" twice
BitcoinPdf ==
    [filename |-> "bitcoin.pdf",
     pdf |-> [opens |-> TRUE, pages |-> <<Page(" ab "), UnreadablePage, Page("c")>>],
     contents |-> <<Chars("a"), Chars("b"), Chars("c")>>,
     answers |->
        <<LlmAnswer(<<Entity(Btc, TECHNOLOGY), Entity(PoW, CONCEPT)>>,
                    <<Relationship(Btc, PoW, Chars("prevents"))>>),
          LlmAnswer(<<Entity(LowerBtc, CONCEPT), Entity(PoW, CONCEPT),
                      Entity(PoW, TECHNOLOGY)>>,
                    <<Relationship(LowerBtc, PoW, Chars("Prevents "))>>),
          LlmAnswer(<<Entity(Nakamoto, PERSON), Entity(Btc, TECHNOLOGY)>>,
                    <<Relationship(Nakamoto, Btc, Chars("created"))>>)>>]
\* a PDF of one page and one chunk; the second relationship of the answer
\* names an entity the answer does not list
PowPdf ==
    [filename |-> "pow.pdf",
     pdf |-> [opens |-> TRUE, pages |-> <<Page("pow")>>],
     contents |-> <<Chars("pow")>>,
     answers |->
        <<LlmAnswer(<<Entity(PoW, TECHNOLOGY), Entity(Nakamoto, PERSON)>>,
                    <<Relationship(Nakamoto, PoW, Chars("created")),
                      Relationship(Nakamoto, Btc, Chars("created"))>>)>>]

Scenarios ==
    {[file |-> BitcoinPdf, faults |-> f] : f \in Faults}
        \cup {[file |-> f, faults |-> NoFaults] : f \in {CorruptPdf, BlankPdf, SentinelPdf, PowPdf}}

\* the answer of the chunker to the document of the call
ChunkerOf(sc) ==
    IF sc.faults.chunker_raises THEN [raises |-> TRUE]
    ELSE [raises |-> FALSE, contents |-> sc.file.contents]

\* the answers of the embedding provider to the requests embed_text makes:
\* response.data holds vectors of vector_dim numbers, and the answer to the
\* batch request lacks its last batch_missing items
ProviderItem(sc, t) ==
    [embedding |-> [dim |-> sc.faults.vector_dim, zero |-> FALSE, of |-> t]]
BatchOf(sc, texts) ==
    IF sc.faults.batch_ok
    THEN [ok |-> TRUE,
          data |-> [i \in 1..(Len(texts) - Min(sc.faults.batch_missing, Len(texts))) |->
                       ProviderItem(sc, texts[i])]]
    ELSE FailedResponse
ItemsOf(sc, texts) ==
    [i \in 1..Len(texts) |->
        IF i \in sc.faults.failed_items THEN FailedResponse
        ELSE [ok |-> TRUE, data |-> <<ProviderItem(sc, texts[i])>>]]

\* the answer of the extraction agent to the prompt of chunk i
AnswerOf(sc, i) ==
    IF i \in sc.faults.llm_raises THEN LlmRaises
    ELSE IF i \in sc.faults.llm_malformed THEN LlmMalformed
    ELSE sc.file.answers[i]

MaxRuns == 2

\* the numbers of nodes and of edges in the graph
GraphCounts ==
    [documents |-> Cardinality(DOMAIN documents),
     chunks |-> Cardinality(DOMAIN chunkNodes),
     entities |-> Cardinality(DOMAIN entityNodes),
     edges |-> Cardinality(hasChunk) + Cardinality(nextEdges)
                 + Cardinality(extractedFrom) + Cardinality(DOMAIN relEdges)]

Init ==
    /\ EmptyGraph /\ RelIdle /\ ConnIdle /\ SqlIdle /\ PipeIdle

\* the test without the sentinel
NoTextOnlyEmpty(t) == t = <<>>

\* if not text or text == "Empty PDF"
NoText(t) ==
    t = <<>> \/ t = EmptyPdf

\* doc_id = str(uuid.uuid4()); text = extract_text_from_pdf(pdf_path);
\* if not text or text == "Empty PDF": return the failure dict
StartPipeline(sc) ==
    /\ pc \in {"idle", "done"}
    /\ runs < MaxRuns
    /\ runs' = runs + 1
    /\ uuids' = uuids + 1
    /\ doc_id' = uuids + 1
    /\ env' = sc
    /\ lastRun' = IF pc = "done"
                  THEN [ran |-> TRUE, env |-> env, result |-> result,
                        counts |-> GraphCounts]
                  ELSE lastRun
    /\ LET extracted == extract_text_from_pdf(sc.file.pdf)
       IN IF Raised(extracted)
          THEN /\ text' = <<>>
               /\ result' = Propagated(extracted.raised)
               /\ pc' = "done"
          ELSE /\ text' = extracted.text
               /\ IF NoText(extracted.text)
                  THEN /\ result' = Returned(FailureDict(
                                       "Could not extract text from PDF", uuids + 1))
                       /\ pc' = "done"
                  ELSE /\ result' = NoResult
                       /\ pc' = "chunk"
    /\ chunks' = <<>>
    /\ chunk_embeddings' = <<>>
    /\ chunk_extractions' = <<>>
    /\ merged_data' = NoMerged
    /\ chunk_ids' = <<>>
    /\ written' = 0
    /\ search' = NoSearch
    /\ UNCHANGED <<graphVars, relVars, sqlVars, connVars>>

\* chunks = chunk_text(text)
ChunkStep ==
    /\ pc = "chunk"
    /\ chunks' = chunk_text(text, ChunkerOf(env))
    /\ pc' = "embed"
    /\ UNCHANGED <<env, text, chunk_embeddings, chunk_extractions, merged_data>>
    /\ UNCHANGED <<graphVars, relVars, sqlVars, connVars, runVars>>

\* chunk_embeddings = embed_text(chunks); embed_text catches what the
\* provider raises, so the except branch of load_pipeline is not taken
EmbedStep ==
    /\ pc = "embed"
    /\ chunk_embeddings' =
          embed_text(chunks, BatchOf(env, chunks), ItemsOf(env, chunks))
    /\ pc' = "extract"
    /\ UNCHANGED <<env, text, chunks, chunk_extractions, merged_data>>
    /\ UNCHANGED <<graphVars, relVars, sqlVars, connVars, runVars>>

\* one iteration of the loop of extract_entities_per_chunk; an exception
\* that leaves extract_entities_from_chunk leaves load_pipeline too
ExtractChunkStep ==
    /\ pc = "extract"
    /\ Len(chunk_extractions) < Len(chunks)
    /\ LET i == Len(chunk_extractions) + 1
           data == extract_entities_from_chunk(AnswerOf(env, i))
       IN IF Raised(data)
          THEN /\ result' = Propagated(data.raised)
               /\ pc' = "done"
               /\ UNCHANGED chunk_extractions
          ELSE /\ chunk_extractions' =
                     Append(chunk_extractions, ChunkExtraction(i, chunks[i], data))
               /\ UNCHANGED <<result, pc>>
    /\ UNCHANGED <<env, text, chunks, chunk_embeddings, merged_data>>
    /\ UNCHANGED <<doc_id, chunk_ids, written, uuids, runs, lastRun, search>>
    /\ UNCHANGED <<graphVars, relVars, sqlVars, connVars>>

\* merged_data = merge_entity_relationships(chunk_extractions)
MergeStep ==
    /\ pc = "extract"
    /\ Len(chunk_extractions) = Len(chunks)
    /\ merged_data' = merge_entity_relationships(chunk_extractions)
    /\ pc' = "store_document"
    /\ UNCHANGED <<env, text, chunks, chunk_embeddings, chunk_extractions>>
    /\ UNCHANGED <<graphVars, relVars, sqlVars, connVars, runVars>>

\* neo4j_service.create_document_node(doc_id, filename, text); an exception
\* of the database inside the try block becomes the failure dict
StoreDocument ==
    /\ pc = "store_document"
    /\ IF env.faults.store_raises
       THEN /\ result' = Returned(FailureDict("ServiceUnavailable", doc_id))
            /\ pc' = "done"
            /\ UNCHANGED documents
       ELSE /\ documents' = DocumentsAfterCreate(doc_id, env.file.filename, text)
            /\ pc' = "store_chunks"
            /\ UNCHANGED result
    /\ UNCHANGED <<chunkNodes, entityNodes, hasChunk, nextEdges, extractedFrom,
                   relEdges>>
    /\ UNCHANGED <<env, text, chunks, chunk_embeddings, chunk_extractions,
                   merged_data>>
    /\ UNCHANGED <<doc_id, chunk_ids, written, uuids, runs, lastRun, search>>
    /\ UNCHANGED <<relVars, sqlVars, connVars>>

\* the pairs of zip(chunks, chunk_embeddings)
ZipLen == Min(Len(chunks), Len(chunk_embeddings))

\* one iteration of the loop over zip(chunks, chunk_embeddings):
\* chunk_id = str(uuid.uuid4()); create_chunk_node(chunk_id, chunk, i, ...)
StoreChunk ==
    /\ pc = "store_chunks"
    /\ Len(chunk_ids) < ZipLen
    /\ LET i == Len(chunk_ids) + 1
           chunk_id == uuids + 1
       IN /\ uuids' = uuids + 1
          /\ chunk_ids' = Append(chunk_ids, chunk_id)
          /\ chunkNodes' = ChunkNodesAfterCreate(chunk_id, chunks[i], i - 1,
                                                 chunk_embeddings[i])
          /\ hasChunk' = HasChunkAfterCreate(chunk_id, doc_id)
    /\ UNCHANGED <<documents, entityNodes, nextEdges, extractedFrom, relEdges>>
    /\ UNCHANGED <<fnVars, doc_id, written, result, runs, lastRun, search>>
    /\ UNCHANGED <<relVars, sqlVars, connVars>>

\* neo4j_service.create_chunk_relationships(chunk_ids)
StoreNextEdges ==
    /\ pc = "store_chunks"
    /\ Len(chunk_ids) = ZipLen
    /\ nextEdges' = NextEdgesAfterCreate(chunk_ids)
    /\ pc' = "store"
    /\ written' = 0
    /\ UNCHANGED <<documents, chunkNodes, entityNodes, hasChunk, extractedFrom,
                   relEdges>>
    /\ UNCHANGED <<env, text, chunks, chunk_embeddings, chunk_extractions,
                   merged_data>>
    /\ UNCHANGED <<doc_id, chunk_ids, result, uuids, runs, lastRun, search>>
    /\ UNCHANGED <<relVars, sqlVars, connVars>>

\* The statements of the two storing loops, in the order they run: for each
\* extraction the lookup chunk_ids[chunk_idx] and a create_entity per entity
\* of the extraction (not of the merged list), then a create_relationship
\* per merged relationship.
EntityStatements(extraction) ==
    <<[kind |-> "lookup", chunk_idx |-> extraction.chunk_index]>>
        \o [k \in 1..Len(extraction.entities) |->
               [kind |-> "entity", chunk_idx |-> extraction.chunk_index,
                entity |-> extraction.entities[k]]]
\* the statements with the loop over the relationships before the loop
\* over the extractions
StoreStatementsRelationshipsFirst ==
    [k \in 1..Len(merged_data.relationships) |->
        [kind |-> "relationship", rel |-> merged_data.relationships[k]]]
        \o Concat([x \in 1..Len(chunk_extractions) |->
                      EntityStatements(chunk_extractions[x])])

StoreStatements ==
    Concat([x \in 1..Len(chunk_extractions) |->
               EntityStatements(chunk_extractions[x])])
        \o [k \in 1..Len(merged_data.relationships) |->
               [kind |-> "relationship", rel |-> merged_data.relationships[k]]]

\* chunk_id = chunk_ids[chunk_idx]: an IndexError inside the try block
\* becomes the failure dict
LookupChunkId ==
    /\ pc = "store"
    /\ written < Len(StoreStatements)
    /\ LET st == StoreStatements[written + 1]
       IN /\ st.kind = "lookup"
          /\ IF st.chunk_idx + 1 \in 1..Len(chunk_ids)
             THEN written' = written + 1 /\ UNCHANGED <<pc, result>>
             ELSE /\ result' = Returned(FailureDict("list index out of range", doc_id))
                  /\ pc' = "done"
                  /\ UNCHANGED written
    /\ UNCHANGED <<env, text, chunks, chunk_embeddings, chunk_extractions,
                   merged_data>>
    /\ UNCHANGED <<doc_id, chunk_ids, uuids, runs, lastRun, search>>
    /\ UNCHANGED <<graphVars, relVars, sqlVars, connVars>>

\* neo4j_service.create_entity(entity.name, entity.type, chunk_id)
StoreEntity ==
    /\ pc = "store"
    /\ written < Len(StoreStatements)
    /\ LET st == StoreStatements[written + 1]
       IN /\ st.kind = "entity"
          /\ entityNodes' = EntityNodesAfterCreate(st.entity.name, st.entity.type)
          /\ extractedFrom' =
                ExtractedFromAfterCreate(st.entity.name, chunk_ids[st.chunk_idx + 1])
    /\ written' = written + 1
    /\ UNCHANGED <<documents, chunkNodes, hasChunk, nextEdges, relEdges>>
    /\ UNCHANGED <<fnVars, doc_id, chunk_ids, result, uuids, runs, lastRun, search>>
    /\ UNCHANGED <<relVars, sqlVars, connVars>>

\* neo4j_service.create_relationship(rel.from_entity, rel.to_entity, rel.type)
StoreRelationship ==
    /\ pc = "store"
    /\ written < Len(StoreStatements)
    /\ LET st == StoreStatements[written + 1]
       IN /\ st.kind = "relationship"
          /\ relEdges' = RelEdgesAfterCreate(st.rel.from_entity, st.rel.to_entity,
                                             st.rel.type)
    /\ written' = written + 1
    /\ UNCHANGED <<documents, chunkNodes, entityNodes, hasChunk, nextEdges,
                   extractedFrom>>
    /\ UNCHANGED <<fnVars, doc_id, chunk_ids, result, uuids, runs, lastRun, search>>
    /\ UNCHANGED <<relVars, sqlVars, connVars>>

\* neo4j_service.create_indexes() and the success dict
Finish ==
    /\ pc = "store"
    /\ written = Len(StoreStatements)
    /\ result' = Returned(SuccessDict(doc_id, env.file.filename,
                    [text_length |-> Len(text),
                     chunks_count |-> Len(chunks),
                     entities_count |-> Len(merged_data.entities),
                     relationships_count |-> Len(merged_data.relationships)]))
    /\ pc' = "done"
    /\ UNCHANGED <<env, text, chunks, chunk_embeddings, chunk_extractions,
                   merged_data>>
    /\ UNCHANGED <<doc_id, chunk_ids, written, uuids, runs, lastRun, search>>
    /\ UNCHANGED <<graphVars, relVars, sqlVars, connVars>>

----------------------------------------------------------------------------
(* Neo4jService.vector_search, get_entities_from_chunks,                   *)
(* get_entity_relationships, graphrag_search                               *)

top_k == 5
rel_limit == 50

Query == Chars("q")

\* The similarity the index gives a chunk for the query: the index ranks
\* the chunks written last highest, or those written first.
Rankings == {"newest", "oldest"}
Score(ranking, chunk_id) == IF ranking = "newest" THEN chunk_id ELSE 0 - chunk_id

\* the members of S by descending score
RECURSIVE ByScoreDesc(_, _)
ByScoreDesc(S, ranking) ==
    IF S = {} THEN <<>>
    ELSE LET best == CHOOSE x \in S :
                        \A y \in S : Score(ranking, y) <= Score(ranking, x)
         IN <<best>> \o ByScoreDesc(S \ {best}, ranking)

FirstK(s, k) == SubSeq(s, 1, Min(k, Len(s)))

\* CALL db.index.vector.queryNodes('chunk_embeddings', $top_k, ...) YIELD c,
\* score; MATCH (c)<-[:HAS_CHUNK]-(d:Document); RETURN ... ORDER BY score DESC.
\* indexed: the chunks the index holds when it is asked.
vector_search(indexed, ranking, k) ==
    LET nearest == FirstK(ByScoreDesc(indexed, ranking), k)
        matched == SelectSeq(nearest, LAMBDA c : \E d \in DOMAIN documents :
                                                    <<d, c>> \in hasChunk)
    IN [i \in 1..Len(matched) |->
          LET c == matched[i]
              d == CHOOSE x \in DOMAIN documents : <<x, c>> \in hasChunk
          IN [chunk_id |-> c, text |-> chunkNodes[c].text,
              chunk_index |-> chunkNodes[c].index, doc_id |-> d,
              filename |-> documents[d].filename, score |-> Score(ranking, c)]]

\* MATCH (e:Entity)-[:EXTRACTED_FROM]->(c:Chunk) WHERE c.id IN $chunk_ids
\* RETURN DISTINCT e.name, e.type: the rows, which come in no given order
get_entities_from_chunks(ids) ==
    {[name |-> e[1], type |-> entityNodes[e[1]]] :
        e \in {x \in extractedFrom : x[2] \in Range(ids)}}

\* The first edge of every path of one or two edges, of any type and either
\* direction, from a named entity to an Entity node. A path repeats no edge,
\* so the second edge of a path through a chunk belongs to another entity;
\* a chunk has no name.
NoName == [null |-> TRUE]
RelationshipRows(entity_names) ==
    {[from |-> k[1], type |-> k[2], to |-> k[3]] :
        k \in {x \in DOMAIN relEdges :
                 x[1] \in entity_names \/ x[3] \in entity_names}}
      \cup
    {[from |-> x[1], type |-> Chars("EXTRACTED_FROM"), to |-> NoName] :
        x \in {y \in extractedFrom :
                 /\ y[1] \in entity_names
                 /\ \E z \in extractedFrom : z[2] = y[2] /\ z[1] # y[1]}}

\* the subsets of rows that leave k of them out
RECURSIVE Without(_, _)
Without(rows, k) ==
    IF k = 0 THEN {rows}
    ELSE UNION {Without(rows \ {r}, k - 1) : r \in rows}

\* the query without its LIMIT
get_entity_relationships_unlimited(entity_names) == {RelationshipRows(entity_names)}

\* LIMIT 50: any rel_limit of the rows when there are more
get_entity_relationships(entity_names) ==
    LET rows == RelationshipRows(entity_names)
    IN IF Cardinality(rows) <= rel_limit THEN {rows}
       ELSE Without(rows, Cardinality(rows) - rel_limit)

\* the test with the early return taken out
NoHitNever(vector_results) == FALSE

\* if not vector_results
NoHit(vector_results) == vector_results = <<>>

\* graphrag_search after the vector search: the calls it makes on the
\* service and the dicts it can return
graphrag_search(vector_results) ==
    IF NoHit(vector_results)
    THEN {[calls |-> <<"vector_search">>,
           value |-> [chunks |-> <<>>, entities |-> {}, relationships |-> {}]]}
    ELSE LET hit_chunks == [i \in 1..Len(vector_results) |->
                              [text |-> vector_results[i].text,
                               score |-> vector_results[i].score,
                               filename |-> vector_results[i].filename]]
             hit_ids == [i \in 1..Len(vector_results) |-> vector_results[i].chunk_id]
             entities == get_entities_from_chunks(hit_ids)
             entity_names == {e.name : e \in entities}
         IN IF entity_names # {}
            THEN {[calls |-> <<"vector_search", "get_entities_from_chunks",
                               "get_entity_relationships">>,
                   value |-> [chunks |-> hit_chunks, entities |-> entities,
                              relationships |-> rels]] :
                     rels \in get_entity_relationships(entity_names)}
            ELSE {[calls |-> <<"vector_search", "get_entities_from_chunks">>,
                   value |-> [chunks |-> hit_chunks, entities |-> entities,
                              relationships |-> {}]]}

\* One call of graphrag_search between two ingestions (the handlers of the
\* routes run one at a time). embedded: the provider answered one of the
\* requests of embed_text([query]); indexed: the chunks the vector index
\* holds at this moment, all of them once it has caught up.
GraphragSearch(embedded, indexed, ranking) ==
    /\ pc \in {"idle", "done"}
    /\ ~search.searched
    /\ LET answers == IF embedded THEN BatchResponse(<<Query>>) ELSE FailedResponse
           query_embedding ==
               embed_text(<<Query>>, answers,
                          <<IF embedded THEN ItemResponse(Query) ELSE FailedResponse>>)[1]
           vector_results == vector_search(indexed, ranking, top_k)
       IN \E outcome \in graphrag_search(vector_results) :
             search' = [searched |-> TRUE, query_embedding |-> query_embedding,
                        vector_results |-> vector_results,
                        calls |-> outcome.calls, result |-> Returned(outcome.value)]
    /\ UNCHANGED <<fnVars, doc_id, chunk_ids, written, result, uuids, runs, lastRun>>
    /\ UNCHANGED <<graphVars, relVars, sqlVars, connVars>>

Next ==
    \/ \E sc \in Scenarios : StartPipeline(sc)
    \/ ChunkStep
    \/ EmbedStep
    \/ ExtractChunkStep
    \/ MergeStep
    \/ StoreDocument
    \/ StoreChunk
    \/ StoreNextEdges
    \/ LookupChunkId
    \/ StoreEntity
    \/ StoreRelationship
    \/ Finish
    \/ \E embedded \in BOOLEAN, indexed \in {{}, DOMAIN chunkNodes},
          ranking \in Rankings :
            GraphragSearch(embedded, indexed, ranking)

Spec == Init /\ [][Next]_vars

\* ---- graphrag_search on a graph with many relationships
MaxNeighbours == 49

Hub == Chars("Hub")
EntityName(i) == Chars("E" \o ToString(i))
LINKS == Chars("LINKS")

\* A graph as ingestions leave it. Document 1 has the chunks 2, 3 and 4: Hub
\* is extracted from chunk 2, another entity from chunk 3, none from chunk
\* 4. Document 5 has the chunk 6, from which n entities are extracted; Hub
\* has an edge to each of them. With shared, the first of the n is extracted
\* from chunk 2 as well.
SearchInit ==
    /\ RelIdle /\ ConnIdle /\ SqlIdle /\ PipeIdle
    /\ \E n \in 0..MaxNeighbours, shared \in BOOLEAN :
          /\ documents = (1 :> [filename |-> "hub.pdf", content |-> Chars("abc")])
                            @@ (5 :> [filename |-> "more.pdf", content |-> Chars("d")])
          /\ chunkNodes = [c \in {2, 3, 4, 6} |->
                             [text |-> <<ToString(c)>>, index |-> IF c = 6 THEN 0 ELSE c - 2,
                              embedding |-> ProviderVector(<<ToString(c)>>)]]
          /\ hasChunk = {<<1, 2>>, <<1, 3>>, <<1, 4>>, <<5, 6>>}
          /\ nextEdges = {<<2, 3>>, <<3, 4>>}
          /\ entityNodes =
                [e \in {Hub, Nakamoto} \cup {EntityName(i) : i \in 1..n} |->
                    IF e = Nakamoto THEN PERSON ELSE CONCEPT]
          /\ extractedFrom =
                {<<Hub, 2>>, <<Nakamoto, 3>>} \cup {<<EntityName(i), 6>> : i \in 1..n}
                   \cup (IF shared /\ n > 0 THEN {<<EntityName(1), 2>>} ELSE {})
          /\ relEdges = [k \in {<<Hub, LINKS, EntityName(i)>> : i \in 1..n} |->
                            LlmTypeOf(Chars("links"), LINKS)]

\* the vector index holds chunks of the first document, all or some
SearchNext ==
    \E embedded \in BOOLEAN, indexed \in SUBSET {2, 3, 4}, ranking \in Rankings :
         GraphragSearch(embedded, indexed, ranking)

SpecSearch == SearchInit /\ [][SearchNext]_vars

----------------------------------------------------------------------------
(* core/sql_load.py: load_structured_data, _push_batch;                    *)
(* Neo4jService.create_structured_nodes_batch, create_structured_relationship *)

batch_size == 100

\* core/models.py: the mapping the schema agent answers
SQLColumnMapping(column_name, target_property, is_embedding_candidate) ==
    [column_name |-> column_name, target_property |-> target_property,
     is_embedding_candidate |-> is_embedding_candidate]
SQLNodeMapping(source_table, target_label, properties) ==
    [source_table |-> source_table, target_label |-> target_label,
     properties |-> properties]
SQLRelationshipMapping(source_table, source_column, target_table, target_column, relationship_type) ==
    [source_table |-> source_table, source_column |-> source_column,
     target_table |-> target_table, target_column |-> target_column,
     relationship_type |-> relationship_type]

\* the values of a row: an integer, a string, or NULL
IntVal(n) == [t |-> "int", v |-> ToString(n)]
StrVal(s) == [t |-> "str", v |-> s]
NULL == [t |-> "null", v |-> ""]

NoProps == [k \in {} |-> NULL]

\* pk_prop: the target property of the first column named id, else "id"
RECURSIVE PkProp(_)
PkProp(properties) ==
    IF properties = <<>> THEN "id"
    ELSE IF Lower(Chars(Head(properties).column_name)) = Chars("id")
         THEN Head(properties).target_property
         ELSE PkProp(Tail(properties))

\* embed_cols
EmbedCols(properties) ==
    LET flagged == SelectSeq(properties, LAMBDA p : p.is_embedding_candidate)
    IN [i \in 1..Len(flagged) |-> flagged[i].column_name]

RECURSIVE JoinStr(_, _)
JoinStr(parts, sep) ==
    IF parts = <<>> THEN ""
    ELSE IF Len(parts) = 1 THEN parts[1]
    ELSE parts[1] \o sep \o JoinStr(Tail(parts), sep)

\* the loop over node_map.properties for one row: props and text_to_embed
RECURSIVE BuildProps(_, _, _)
BuildProps(properties, row_dict, acc) ==
    IF properties = <<>> THEN acc
    ELSE LET prop_map == Head(properties)
             val == IF prop_map.column_name \in DOMAIN row_dict
                    THEN row_dict[prop_map.column_name] ELSE NULL
         IN BuildProps(Tail(properties), row_dict,
               IF val = NULL THEN acc
               ELSE [props |-> (prop_map.target_property :> val) @@ acc.props,
                     text_to_embed |->
                        IF prop_map.is_embedding_candidate /\ val.t = "str"
                        THEN Append(acc.text_to_embed,
                                    prop_map.target_property \o ": " \o val.v)
                        ELSE acc.text_to_embed])

\* the dict appended to batch_data for one row
RowProps(properties, row_dict) ==
    LET built == BuildProps(properties, row_dict,
                            [props |-> NoProps, text_to_embed |-> <<>>])
    IN IF built.text_to_embed # <<>>
       THEN ("embedding_text" :> StrVal(JoinStr(built.text_to_embed, ". ")))
                @@ built.props
       ELSE built.props

\* the calls made on the service
EnsureIndexCall(label) == [op |-> "_ensure_vector_index", label |-> label]
NodesBatchCall(label, props_list, primary_key) ==
    [op |-> "create_structured_nodes_batch", label |-> label,
     props_list |-> props_list, primary_key |-> primary_key]
RelationshipCall(source_label, source_prop, target_label, target_prop, rel_type) ==
    [op |-> "create_structured_relationship", source_label |-> source_label,
     source_prop |-> source_prop, target_label |-> target_label,
     target_prop |-> target_prop, rel_type |-> rel_type]

\* the rows of a batch written with CREATE: a node per row
CreateRows(nodes, label, rows, primary_key) ==
    LET made == Cardinality(DOMAIN nodes)
        key(i) == <<label, rows[i][primary_key], made + i>>
    IN [k \in DOMAIN nodes \cup {key(i) : i \in 1..Len(rows)} |->
           IF k \in DOMAIN nodes THEN nodes[k]
           ELSE rows[CHOOSE i \in 1..Len(rows) : key(i) = k]]

\* UNWIND $batch AS row MERGE (n:label {pk: row.pk}) SET n += row
\* The node of a key is matched or created by the first row that has the
\* key; each row with the key then sets its properties over those the node
\* has, so a property has the value of the last row that gives it.
MergeRows(nodes, label, rows, primary_key) ==
    LET key(i) == <<label, rows[i][primary_key]>>
    IN [k \in DOMAIN nodes \cup {key(i) : i \in 1..Len(rows)} |->
           LET hits == {i \in 1..Len(rows) : key(i) = k}
               old == IF k \in DOMAIN nodes THEN nodes[k] ELSE NoProps
               giving(p) == {i \in hits : p \in DOMAIN rows[i]}
               last(p) == CHOOSE i \in giving(p) : \A j \in giving(p) : j <= i
           IN [p \in DOMAIN old \cup UNION {DOMAIN rows[i] : i \in hits} |->
                  IF giving(p) # {} THEN rows[last(p)][p] ELSE old[p]]]

\* The service while load_structured_data runs: the calls made on it, the
\* nodes it holds, and whether a statement raised.
\* create_structured_nodes_batch: nothing for an empty list; the vector
\* index when the first row has an embedding; the MERGE of the rows, which
\* the database refuses as a whole when a row has no value for the key.
create_structured_nodes_batch(st, label, props_list, primary_key) ==
    LET called == [st EXCEPT !.calls =
                      Append(@, NodesBatchCall(label, props_list, primary_key))]
    IN IF props_list = <<>> THEN called
       ELSE LET ensured ==
                    IF "embedding" \in DOMAIN props_list[1]
                    THEN [called EXCEPT !.calls = Append(@, EnsureIndexCall(label))]
                    ELSE called
            IN IF \E i \in 1..Len(props_list) : primary_key \notin DOMAIN props_list[i]
               THEN [ensured EXCEPT !.raised = TRUE]
               ELSE [ensured EXCEPT !.nodes =
                        MergeRows(@, label, props_list, primary_key)]

\* _push_batch: the embeddings of the rows that have an embedding_text, then
\* the write
HasText(d) == "embedding_text" \in DOMAIN d
_push_batch(st, provider, label, data_list, embed_cols, pk_prop) ==
    LET with_text == SelectSeq(data_list, HasText)
        texts == [i \in 1..Len(with_text) |-> with_text[i]["embedding_text"].v]
        embeddings == embed_text(texts, BatchOf(provider, texts),
                                 ItemsOf(provider, texts))
        embed_idx(i) == Cardinality({j \in 1..i : HasText(data_list[j])})
        embedded ==
            [i \in 1..Len(data_list) |->
                LET d == data_list[i]
                IN IF HasText(d)
                   THEN [k \in (DOMAIN d \ {"embedding_text"}) \cup {"embedding"} |->
                            IF k = "embedding" THEN embeddings[embed_idx(i)]
                            ELSE d[k]]
                   ELSE d]
    IN create_structured_nodes_batch(
          st, label,
          IF embed_cols # <<>> /\ texts # <<>> THEN embedded ELSE data_list,
          pk_prop)

\* the body of the loop over the rows without the flush of a full batch
RowStepNoFlush(acc, provider, node_map, row) ==
    IF acc.st.raised THEN acc
    ELSE [acc EXCEPT !.batch_data = Append(@, RowProps(node_map.properties, row))]

\* The body of the loop over the rows fetched: the dict of the row is
\* appended; a batch of batch_size is pushed and emptied. An exception ends
\* the loop.
RowStep(acc, provider, node_map, row) ==
    IF acc.st.raised THEN acc
    ELSE LET filled == Append(acc.batch_data, RowProps(node_map.properties, row))
         IN IF Len(filled) >= batch_size
            THEN [st |-> _push_batch(acc.st, provider, node_map.target_label, filled,
                                     EmbedCols(node_map.properties),
                                     PkProp(node_map.properties)),
                  batch_data |-> <<>>]
            ELSE [acc EXCEPT !.batch_data = filled]

\* for row in rows: the rows lo..hi, in the order fetched
RECURSIVE RowLoop(_, _, _, _, _, _)
RowLoop(acc, provider, node_map, rows, lo, hi) ==
    IF lo > hi THEN acc
    ELSE IF lo = hi THEN RowStep(acc, provider, node_map, rows[lo])
    ELSE LET mid == (lo + hi) \div 2
             half == RowLoop(acc, provider, node_map, rows, lo, mid)
         IN IF half.st.raised THEN half
            ELSE RowLoop(half, provider, node_map, rows, mid + 1, hi)

\* The loop, then what is left after the last row, pushed when not empty
LoadRows(st, provider, node_map, rows, batch_data) ==
    LET after == RowLoop([st |-> st, batch_data |-> batch_data],
                         provider, node_map, rows, 1, Len(rows))
    IN IF ~after.st.raised /\ after.batch_data # <<>>
       THEN _push_batch(after.st, provider, node_map.target_label, after.batch_data,
                        EmbedCols(node_map.properties), PkProp(node_map.properties))
       ELSE after.st

\* MATCH (s:source_label) MATCH (t:target_label)
\* WHERE s.source_prop = t.target_prop MERGE (s)-[:rel_type]->(t)
create_structured_relationship(st, source_label, source_prop, target_label, target_prop, rel_type) ==
    LET called == [st EXCEPT !.calls =
                      Append(@, RelationshipCall(source_label, source_prop,
                                                 target_label, target_prop, rel_type))]
        matched ==
            {<<s, rel_type, t>> : s \in {k \in DOMAIN st.nodes :
                                          /\ k[1] = source_label
                                          /\ source_prop \in DOMAIN st.nodes[k]},
                                  t \in {k \in DOMAIN st.nodes :
                                          /\ k[1] = target_label
                                          /\ target_prop \in DOMAIN st.nodes[k]}}
    IN [called EXCEPT !.edges =
           @ \cup {e \in matched :
                     st.nodes[e[1]][source_prop] = st.nodes[e[3]][target_prop]}]

\* next(...) over a sequence of candidates: the first, when there is one;
\* StopIteration when there is none
Found(candidates) == candidates # <<>>
First(candidates) == Head(candidates)
\* (n for n in mapping.nodes if n.source_table == table)
NodesOfTable(mapping, table) ==
    SelectSeq(mapping.nodes, LAMBDA n : n.source_table = table)
\* (p.target_property for p in node.properties if p.column_name == column)
PropsOfColumn(node, column) ==
    LET named == SelectSeq(node.properties, LAMBDA p : p.column_name = column)
    IN [i \in 1..Len(named) |-> named[i].target_property]

\* the body of the loop over mapping.relationships with the StopIteration
\* of a missing node mapping left to propagate
LinkOrRaise(st, mapping, rel) ==
    LET sources == NodesOfTable(mapping, rel.source_table)
        targets == NodesOfTable(mapping, rel.target_table)
    IN IF ~Found(sources) \/ ~Found(targets)
       THEN [st EXCEPT !.raised = TRUE]
       ELSE LET source_node == First(sources)
                target_node == First(targets)
                source_props == PropsOfColumn(source_node, rel.source_column)
                target_props == PropsOfColumn(target_node, rel.target_column)
            IN IF ~Found(source_props) \/ ~Found(target_props)
               THEN st
               ELSE create_structured_relationship(
                       st, source_node.target_label, First(source_props),
                       target_node.target_label, First(target_props),
                       rel.relationship_type)

\* The body of the loop over mapping.relationships: the four next(...) in
\* the try block, then the call; except StopIteration: continue.
Link(st, mapping, rel) ==
    LET sources == NodesOfTable(mapping, rel.source_table)
        targets == NodesOfTable(mapping, rel.target_table)
    IN IF ~Found(sources) \/ ~Found(targets)
       THEN st
       ELSE LET source_node == First(sources)
                target_node == First(targets)
                source_props == PropsOfColumn(source_node, rel.source_column)
                target_props == PropsOfColumn(target_node, rel.target_column)
            IN IF ~Found(source_props) \/ ~Found(target_props)
               THEN st
               ELSE create_structured_relationship(
                       st, source_node.target_label, First(source_props),
                       target_node.target_label, First(target_props),
                       rel.relationship_type)

\* ---- the databases and the mappings
MaxRows == 205
MaxRelMaps == 2
MaxLoads == 2
KeyPeriod == 7

UsersMap ==
    SQLNodeMapping("users", "User",
        <<SQLColumnMapping("ID", "userId", FALSE), SQLColumnMapping("bio", "bio", TRUE)>>)
OrdersMap ==
    SQLNodeMapping("orders", "Order",
        <<SQLColumnMapping("id", "orderNo", FALSE),
          SQLColumnMapping("user_id", "buyer", FALSE)>>)
\* a table without a column named id
LogsMap ==
    SQLNodeMapping("logs", "Log", <<SQLColumnMapping("msg", "message", TRUE)>>)

\* a table without a column named id whose column code is mapped to the
\* property id
TagsMap ==
    SQLNodeMapping("tags", "Tag", <<SQLColumnMapping("code", "id", FALSE)>>)

\* kind "unique": row i has the key i; kind "repeating": the keys repeat
\* with period KeyPeriod. Every third row has no bio.
UserRows(n, kind) ==
    [i \in 1..n |->
        [ID |-> IntVal(IF kind = "unique" THEN i ELSE ((i - 1) % KeyPeriod) + 1),
         bio |-> IF i % 3 = 1 THEN NULL ELSE StrVal("bio " \o ToString(i))]]
OrderRows ==
    <<[id |-> IntVal(11), user_id |-> IntVal(1)],
      [id |-> IntVal(12), user_id |-> IntVal(1)],
      [id |-> IntVal(13), user_id |-> NULL]>>
LogRows == <<[msg |-> StrVal("started")]>>
TagRows == <<[code |-> StrVal("a")], [code |-> StrVal("b")], [code |-> StrVal("a")]>>

Tables(users) == [users |-> users, orders |-> OrderRows, logs |-> LogRows, tags |-> TagRows]

PlacedBy == SQLRelationshipMapping("orders", "user_id", "users", "ID", "PLACED_BY")
NoTargetTable ==
    SQLRelationshipMapping("orders", "user_id", "products", "id", "CONTAINS")
NoSourceTable ==
    SQLRelationshipMapping("products", "id", "users", "ID", "BOUGHT_BY")
NoSuchColumn ==
    SQLRelationshipMapping("orders", "customer", "users", "ID", "OWNED_BY")
\* a type the model wrote in lower case
LowerCased == SQLRelationshipMapping("orders", "user_id", "users", "ID", "placed_by")
\* the types of the pool are all identifiers of the query language
RelMapPool == {PlacedBy, NoTargetTable, NoSourceTable, NoSuchColumn, LowerCased}

ProviderUp ==
    [faults |-> [batch_ok |-> TRUE, failed_items |-> {},
                 vector_dim |-> EMBED_DIM, batch_missing |-> 0]]
ProviderDown ==
    [faults |-> [batch_ok |-> FALSE, failed_items |-> {1},
                 vector_dim |-> EMBED_DIM, batch_missing |-> 0]]

SqlInput(nodes, relationships, users, provider) ==
    [mapping |-> [nodes |-> nodes, relationships |-> relationships],
     tables |-> Tables(users), faults |-> provider.faults]

\* one table of up to MaxRows rows and no relationship; or three small
\* tables and up to MaxRelMaps relationship mappings
SqlInputs ==
    {SqlInput(<<UsersMap>>, <<>>, UserRows(n, kind), ProviderUp) :
        n \in 0..MaxRows, kind \in {"unique", "repeating"}}
      \cup
    {SqlInput(nodes, rels, UserRows(3, "unique"), provider) :
        nodes \in {<<UsersMap, OrdersMap>>, <<OrdersMap, TagsMap>>,
                   <<UsersMap, LogsMap, OrdersMap>>},
        rels \in UNION {[1..n -> RelMapPool] : n \in 0..MaxRelMaps},
        provider \in {ProviderUp, ProviderDown}}

ServiceNow ==
    [calls |-> sqlCalls, nodes |-> structNodes, edges |-> structEdges,
     raised |-> FALSE]

SqlInit ==
    /\ EmptyGraph /\ RelIdle /\ ConnIdle /\ PipeIdle
    /\ sqlPc = "ready"
    /\ sqlIn \in SqlInputs
    /\ node_idx = 0
    /\ rel_idx = 0
    /\ sqlCalls = <<>>
    /\ structNodes = <<>>
    /\ structEdges = {}
    /\ loads = 0
    /\ firstLoad = NoRun

\* load_structured_data is called: the schema is read and the agent answers
\* the mapping
StartLoad ==
    /\ sqlPc \in {"ready", "done"}
    /\ loads < MaxLoads
    /\ loads' = loads + 1
    /\ node_idx' = 0
    /\ rel_idx' = 0
    /\ sqlCalls' = <<>>
    /\ sqlPc' = "run"
    /\ UNCHANGED <<sqlIn, structNodes, structEdges, firstLoad>>
    /\ UNCHANGED <<graphVars, relVars, connVars, pipeVars>>

\* one iteration of the loop over mapping.nodes
LoadTable ==
    /\ sqlPc = "run"
    /\ node_idx < Len(sqlIn.mapping.nodes)
    /\ LET node_map == sqlIn.mapping.nodes[node_idx + 1]
           after == LoadRows(ServiceNow, sqlIn, node_map,
                             sqlIn.tables[node_map.source_table], <<>>)
       IN /\ sqlCalls' = after.calls
          /\ structNodes' = after.nodes
          /\ IF after.raised
             THEN sqlPc' = "raised" /\ UNCHANGED node_idx
             ELSE node_idx' = node_idx + 1 /\ UNCHANGED sqlPc
    /\ UNCHANGED <<sqlIn, rel_idx, structEdges, loads, firstLoad>>
    /\ UNCHANGED <<graphVars, relVars, connVars, pipeVars>>

\* one iteration of the loop over mapping.relationships
LinkRelationship ==
    /\ sqlPc = "run"
    /\ node_idx = Len(sqlIn.mapping.nodes)
    /\ rel_idx < Len(sqlIn.mapping.relationships)
    /\ LET after == Link(ServiceNow, sqlIn.mapping,
                         sqlIn.mapping.relationships[rel_idx + 1])
       IN /\ sqlCalls' = after.calls
          /\ structEdges' = after.edges
          /\ IF after.raised
             THEN sqlPc' = "raised" /\ UNCHANGED rel_idx
             ELSE rel_idx' = rel_idx + 1 /\ UNCHANGED sqlPc
    /\ UNCHANGED <<sqlIn, node_idx, structNodes, loads, firstLoad>>
    /\ UNCHANGED <<graphVars, relVars, connVars, pipeVars>>

\* the loops are over: load_structured_data returns
FinishLoad ==
    /\ sqlPc = "run"
    /\ node_idx = Len(sqlIn.mapping.nodes)
    /\ rel_idx = Len(sqlIn.mapping.relationships)
    /\ sqlPc' = "done"
    /\ firstLoad' = IF loads = 1
                    THEN [ran |-> TRUE, nodes |-> structNodes, edges |-> structEdges]
                    ELSE firstLoad
    /\ UNCHANGED <<sqlIn, node_idx, rel_idx, sqlCalls, structNodes, structEdges, loads>>
    /\ UNCHANGED <<graphVars, relVars, connVars, pipeVars>>

SqlNext == StartLoad \/ LoadTable \/ LinkRelationship \/ FinishLoad

SpecSql == SqlInit /\ [][SqlNext]_vars

----------------------------------------------------------------------------
(* C8 *)

NoDoubleUnderscore(s) ==
    \A i \in 1..(Len(s) - 1) : ~(s[i] = "_" /\ s[i + 1] = "_")

AsciiAlnum == Range(LowerLetters) \cup Range(UpperLetters) \cup DigitChars
HasAlnum(s) == \E i \in 1..Len(s) : s[i] \in AsciiAlnum
FirstAlnum(s) == s[CHOOSE i \in 1..Len(s) :
                      s[i] \in AsciiAlnum /\ \A j \in 1..(i - 1) : s[j] \notin AsciiAlnum]

ValidLabel(s) ==
    /\ s # <<>>
    /\ \A i \in 1..Len(s) : s[i] \in AllowedLabelChars \cup {"_"}
    /\ s[1] # "_"
    /\ s[Len(s)] # "_"
    /\ NoDoubleUnderscore(s)
    /\ s[1] \notin DigitChars

\* C8: the label create_relationship splices is non-empty, made of A-Z, 0-9
\* and underscore only, without a leading or trailing underscore, without
\* two consecutive underscores and without a leading digit (a phrase whose
\* first alphanumeric character is a digit gives REL_ followed by that
\* digit); a phrase with no alphanumeric character gives RELATED;
\* "Prevents Through Proof of Work!!" gives PREVENTS_THROUGH_PROOF_OF_WORK;
\* and the edge written keeps the phrase, unchanged, in llm_type.
C8_NormalizedLabel ==
    relCall.called =>
        LET p == relCall.rel_type
            l == relCall.rel_label
            key == <<relCall.from_entity, l, relCall.to_entity>>
        IN /\ ValidLabel(l)
           /\ (~HasAlnum(p)) => l = RELATED
           /\ (HasAlnum(p) /\ FirstAlnum(p) \in DigitChars)
                 => (Len(l) >= 5 /\ SubSeq(l, 1, 4) = Chars("REL_")
                     /\ l[5] = FirstAlnum(p))
           /\ (HasAlnum(p) /\ FirstAlnum(p) \notin DigitChars)
                 => l[1] = UpperChar(FirstAlnum(p))
           /\ (p = ProofOfWorkPhrase)
                 => l = Chars("PREVENTS_THROUGH_PROOF_OF_WORK")
           /\ ({relCall.from_entity, relCall.to_entity} \subseteq DOMAIN entityNodes)
                 => (key \in DOMAIN relEdges /\ relEdges[key] = p)

C8_Witness ==
    /\ relCall.called
    /\ relCall.rel_type = ProofOfWorkPhrase
    /\ relCall.rel_label = Chars("PREVENTS_THROUGH_PROOF_OF_WORK")
    /\ <<Btc, relCall.rel_label, PoW>> \in DOMAIN relEdges
    /\ relEdges[<<Btc, relCall.rel_label, PoW>>] = ProofOfWorkPhrase

----------------------------------------------------------------------------
(* C9 *)

ConnInvariant ==
    \A s \in Services :
        LET log == attemptLog[s] IN
        /\ Len(log) <= 5
        \* no attempt follows a successful one
        /\ \A i \in 1..(Len(log) - 1) : log[i] = "fail"
        \* the same delay after every failed attempt but the fifth
        /\ \A i \in 1..Len(delayLog[s]) : delayLog[s][i] = delayLog[s][1]
        /\ Len(delayLog[s]) =
              Cardinality({i \in 1..Len(log) : log[i] = "fail" /\ i < 5})
              - (IF connPc[s] = "sleep" THEN 1 ELSE 0)
        \* it raises exactly when the fifth attempt has failed
        /\ connPc[s] = "raised" <=> (Len(log) = 5 /\ log[5] = "fail")
        \* nothing runs on the graph before a successful attempt
        /\ (graphOps[s] # <<>> \/ connPc[s] \in {"setup_index", "ready"})
              => Connected(s)
        /\ graphOps[s] # <<>> => graphOps[s][1] = "_setup_vector_index"

ConnTerminated ==
    \A s \in Services : connPc[s] \in {"ready", "raised"}

\* C9: _connect makes at most 5 attempts, sleeps the same delay after each
\* failed attempt except the fifth, makes no attempt after a successful one,
\* raises exactly when the fifth attempt fails, and so every constructor
\* ends (ready or raised); _setup_vector_index and the later graph
\* operations run only after a successful attempt.
C9_BoundedRetry == []ConnInvariant /\ <>[]ConnTerminated

C9_Witness ==
    /\ connPc["upload"] = "raised"
    /\ Len(delayLog["upload"]) = 4
    /\ connPc["chat"] = "ready"
    /\ attemptLog["chat"] = <<"fail", "fail", "ok">>
    /\ Len(graphOps["chat"]) > 1

----------------------------------------------------------------------------
(* C3 *)

\* C3: whatever requests fail, embed_text returns one vector per input text,
\* in input order, each of length 1536; the vector of a text whose batch
\* request and own request both failed is the zero vector of length 1536.
C3_EmbeddingLength ==
    pc = "returned" =>
        /\ Len(chunk_embeddings) = Len(chunks)
        /\ \A i \in 1..Len(chunks) :
              LET v == chunk_embeddings[i] IN
              /\ v.dim = 1536
              /\ IF ~env.batch.ok /\ ~env.items[i].ok
                 THEN v.zero
                 ELSE ~v.zero /\ v.of = chunks[i]

C3_Witness ==
    /\ pc = "returned"
    /\ Len(chunks) = 3
    /\ ~env.batch.ok
    /\ chunk_embeddings[1] = ProviderVector(chunks[1])
    /\ chunk_embeddings[2] = ZeroVector
    /\ chunk_embeddings[3] = ProviderVector(chunks[3])

----------------------------------------------------------------------------
(* C4 *)

FallbackResult ==
    /\ \A j \in 1..Len(chunks) : Len(chunks[j]) >= 1 /\ Len(chunks[j]) <= 1000
    /\ Concat(chunks) = text

\* C4 as stated: when the chunker raises, chunk_text returns a non-empty
\* list of slices of at most 1000 characters whose concatenation is the
\* text.
C4_FallbackNonEmpty ==
    (pc = "returned" /\ env.chunker.raises) => (chunks # <<>> /\ FallbackResult)

\* C4, amended: when the chunker raises, chunk_text returns the list of the
\* consecutive slices of the text, each of 1 to 1000 characters, whose
\* concatenation in order is the text; the list is empty when the text is
\* empty and non-empty otherwise.
C4_FallbackTotal ==
    (pc = "returned" /\ env.chunker.raises) =>
        /\ FallbackResult
        /\ (chunks = <<>>) <=> (text = <<>>)

C4_Witness ==
    /\ pc = "returned"
    /\ env.chunker.raises
    /\ Len(text) = 2001
    /\ Len(chunks) = 3
    /\ Len(chunks[3]) = 1
    /\ chunks[1] # chunks[2]

----------------------------------------------------------------------------
(* C5 *)

NamesOf(entities) == {e.name : e \in Range(entities)}

\* C5: every relationship a chunk's extraction keeps has both endpoints
\* among the names of the entities that extraction keeps; and every
\* relationship of the merged list is a relationship of some chunk's
\* extraction, so both of its endpoints are among the entities kept for that
\* chunk.
C5_EndpointIntegrity ==
    /\ \A i \in 1..Len(chunk_extractions) :
          \A rel \in Range(chunk_extractions[i].relationships) :
              /\ rel.from_entity \in NamesOf(chunk_extractions[i].entities)
              /\ rel.to_entity \in NamesOf(chunk_extractions[i].entities)
    /\ pc = "returned" =>
          \A rel \in Range(merged_data.relationships) :
              \E i \in 1..Len(chunk_extractions) :
                  /\ rel \in Range(chunk_extractions[i].relationships)
                  /\ rel.from_entity \in NamesOf(chunk_extractions[i].entities)
                  /\ rel.to_entity \in NamesOf(chunk_extractions[i].entities)
                  /\ rel.from_entity \in NamesOf(QualityEntities(env.llm[i].entities))
                  /\ rel.to_entity \in NamesOf(QualityEntities(env.llm[i].entities))

\* A relationship with an endpoint the filter removed was dropped, one with
\* both endpoints kept went through to the merged list.
C5_Witness ==
    /\ pc = "returned"
    /\ Len(chunk_extractions) = 2
    /\ env.llm[1].kind = "ok"
    /\ Len(env.llm[1].relationships) = 3
    /\ Len(chunk_extractions[1].relationships) = 1
    /\ Len(merged_data.relationships) = 2

----------------------------------------------------------------------------
(* C1 *)

\* C1: a successful run of load_pipeline that follows a successful run on
\* the same document, with the same answers of the services, leaves the graph
\* with the numbers of Document, Chunk and Entity nodes and of edges that it
\* had after the first of the two.
C1_SecondRunAddsNothing ==
    (/\ pc = "done"
     /\ Succeeded(result)
     /\ lastRun.ran
     /\ Succeeded(lastRun.result)
     /\ lastRun.env = env)
        => GraphCounts = lastRun.counts

----------------------------------------------------------------------------
(* C2 *)

\* C2: no two Entity nodes of the graph have names that are equal when case
\* is ignored.
C2_NoCaseDuplicates ==
    \A a, b \in DOMAIN entityNodes : Lower(a) = Lower(b) => a = b

----------------------------------------------------------------------------
(* C6 *)

ExpansionCalls == {"get_entities_from_chunks", "get_entity_relationships"}

\* C6: a graphrag_search whose vector search returned no hit returns empty
\* chunks, empty entities and empty relationships, and calls neither
\* get_entities_from_chunks nor get_entity_relationships.
C6_NoHitNoExpansion ==
    (search.searched /\ search.vector_results = <<>>) =>
        /\ search.result.kind = "return"
        /\ search.result.value.chunks = <<>>
        /\ search.result.value.entities = {}
        /\ search.result.value.relationships = {}
        /\ Range(search.calls) \cap ExpansionCalls = {}

\* a search without hits on a graph that holds chunks, entities and edges
C6_Witness ==
    /\ search.searched
    /\ search.vector_results = <<>>
    /\ DOMAIN chunkNodes # {}
    /\ extractedFrom # {}
    /\ DOMAIN relEdges # {}

----------------------------------------------------------------------------
(* C7 *)

ExtractionFailed(i) == AnswerOf(env, i).kind # "ok"

\* the extractions of the chunks whose extraction did not fail
NotFailed ==
    SelectSeq(chunk_extractions, LAMBDA x : ~ExtractionFailed(x.chunk_index + 1))

AfterMerge == pc \in {"store_document", "store_chunks", "store"} \/
              (pc = "done" /\ chunks # <<>>)

\* C7: a chunk whose extraction fails (the agent raises, or its output is
\* malformed) contributes an empty entity list and an empty relationship
\* list; the other chunks are still extracted and the call does not raise;
\* the merged result is the merge of the extractions that did not fail; the
\* stats of a successful run report the number of all chunks.
C7_FailureIsolated ==
    /\ \A i \in 1..Len(chunk_extractions) :
          IF ExtractionFailed(i)
          THEN /\ chunk_extractions[i].entities = <<>>
               /\ chunk_extractions[i].relationships = <<>>
          ELSE /\ chunk_extractions[i].entities =
                     QualityEntities(AnswerOf(env, i).entities)
               /\ chunk_extractions[i].chunk_index = i - 1
    /\ (runs > 0 /\ env.file.pdf.opens) => result.kind # "raise"
    /\ AfterMerge =>
          /\ Len(chunk_extractions) = Len(chunks)
          /\ merged_data = merge_entity_relationships(NotFailed)
    /\ Succeeded(result) => result.value.stats.chunks_count = Len(chunks)

\* the scenario: three chunks, the extraction of the second raises, the run
\* succeeds with what the first and the third gave
C7_Witness ==
    /\ pc = "done"
    /\ Succeeded(result)
    /\ Len(chunks) = 3
    /\ AnswerOf(env, 2) = LlmRaises
    /\ chunk_extractions[2].entities = <<>>
    /\ chunk_extractions[3].entities # <<>>
    /\ Len(merged_data.entities) = 3
    /\ result.value.stats.chunks_count = 3

----------------------------------------------------------------------------
(* C10 *)

\* the size of the graph when the call in progress (or just over) began
CountsBeforeRun ==
    IF lastRun.ran THEN lastRun.counts
    ELSE [documents |-> 0, chunks |-> 0, entities |-> 0, edges |-> 0]

\* the half of C10 about the graph: a call on a file that cannot be opened
\* writes nothing
C10_NoGraphWrite ==
    (runs > 0 /\ pc = "done" /\ ~env.file.pdf.opens) =>
        GraphCounts = CountsBeforeRun

\* C10: a call of load_pipeline on a file that cannot be opened returns a
\* dict with success False, an error message and the doc_id of the call, and
\* writes nothing to the graph.
C10_StructuredFailure ==
    (runs > 0 /\ pc = "done" /\ ~env.file.pdf.opens) =>
        /\ result.kind = "return"
        /\ result.value.success = FALSE
        /\ "error" \in DOMAIN result.value
        /\ result.value.doc_id = doc_id
        /\ GraphCounts = CountsBeforeRun

----------------------------------------------------------------------------
(* C11 *)

\* what merge_entity_relationships is given: the entities, and the
\* relationships, of the extractions in chunk order and in-chunk order
InputEntities ==
    Concat([i \in 1..Len(chunk_extractions) |-> chunk_extractions[i].entities])
InputRelationships ==
    Concat([i \in 1..Len(chunk_extractions) |-> chunk_extractions[i].relationships])

EntityKey(e) == Lower(Strip(e.name))

\* the position of the first input entity that has the key of x
FirstEntityWith(x) ==
    CHOOSE k \in 1..Len(InputEntities) :
        /\ EntityKey(InputEntities[k]) = EntityKey(x)
        /\ \A j \in 1..(k - 1) : EntityKey(InputEntities[j]) # EntityKey(x)

\* C11: in the merged entities no two have names equal after trimming and
\* lower-casing; every input entity's trimmed lower-cased name is that of
\* exactly one merged entity, and this merged entity is the first input
\* entity of that name, with the casing and the type it has there.
C11_FirstEntityWins ==
    pc = "returned" =>
        LET out == merged_data.entities
        IN /\ \A i, j \in 1..Len(out) :
                 EntityKey(out[i]) = EntityKey(out[j]) => i = j
           /\ \A k \in 1..Len(InputEntities) :
                 \E i \in 1..Len(out) :
                    /\ EntityKey(out[i]) = EntityKey(InputEntities[k])
                    /\ out[i] = InputEntities[FirstEntityWith(InputEntities[k])]
           /\ \A i \in 1..Len(out) : out[i] \in Range(InputEntities)

\* "Btc" of type TECHNOLOGY in the first chunk, " Btc" or "btc" of another
\* type in a later chunk: the merged list holds the first, not the later one
C11_Witness ==
    /\ pc = "returned"
    /\ Len(chunk_extractions) >= 2
    /\ Entity(Btc, TECHNOLOGY) \in Range(chunk_extractions[1].entities)
    /\ Entity(SpaceBtc, PERSON) \in Range(InputEntities)
    /\ Entity(LowerBtc, CONCEPT) \in Range(InputEntities)
    /\ Entity(Btc, TECHNOLOGY) \in Range(merged_data.entities)
    /\ Len(merged_data.entities) < Len(InputEntities)

----------------------------------------------------------------------------
(* C12 *)

RelKey(rel) ==
    <<Strip(rel.from_entity), Strip(rel.to_entity), Lower(Strip(rel.type))>>

\* the position of the first input relationship that has the key of x
FirstRelationshipWith(x) ==
    CHOOSE k \in 1..Len(InputRelationships) :
        /\ RelKey(InputRelationships[k]) = RelKey(x)
        /\ \A j \in 1..(k - 1) : RelKey(InputRelationships[j]) # RelKey(x)

\* C12: in the merged relationships no two share the key (trimmed from-name,
\* trimmed to-name, lower-cased trimmed type); every key of the input occurs
\* in the output; the relationship kept for a key is the first input
\* relationship of that key; the output is ordered by first occurrence.
C12_FirstRelationshipWins ==
    pc = "returned" =>
        LET out == merged_data.relationships
            first(x) == FirstRelationshipWith(x)
        IN /\ \A i, j \in 1..Len(out) : RelKey(out[i]) = RelKey(out[j]) => i = j
           /\ \A k \in 1..Len(InputRelationships) :
                 \E i \in 1..Len(out) :
                    /\ RelKey(out[i]) = RelKey(InputRelationships[k])
                    /\ out[i] = InputRelationships[first(InputRelationships[k])]
           /\ \A i \in 1..Len(out) : out[i] \in Range(InputRelationships)
           /\ \A i, j \in 1..Len(out) : i < j => first(out[i]) < first(out[j])

\* two input relationships that differ as records and share a key, of which
\* the first is kept, among relationships of other keys
C12_Witness ==
    /\ pc = "returned"
    /\ \E a, b \in 1..Len(InputRelationships) :
          /\ a < b
          /\ InputRelationships[a] # InputRelationships[b]
          /\ RelKey(InputRelationships[a]) = RelKey(InputRelationships[b])
          /\ InputRelationships[a] \in Range(merged_data.relationships)
          /\ InputRelationships[b] \notin Range(merged_data.relationships)
    /\ Len(merged_data.relationships) >= 2

----------------------------------------------------------------------------
(* C13 *)

EndpointsExist ==
    \A k \in DOMAIN relEdges :
        k[1] \in DOMAIN entityNodes /\ k[3] \in DOMAIN entityNodes

\* the calls made whose two endpoint names have an Entity node
MatchedCalls ==
    {c \in Range(relLog) :
        c.from_entity \in DOMAIN entityNodes /\ c.to_entity \in DOMAIN entityNodes}

\* C13: every entity-to-entity edge has two existing Entity nodes as its
\* endpoints; a call of create_relationship with an endpoint name that has no
\* Entity node creates no node, and no edge: every edge of the graph is the
\* edge of a call whose two endpoints had a node.
C13_EdgesBetweenEntities ==
    /\ EndpointsExist
    /\ DOMAIN entityNodes = {Btc, PoW}
    /\ \A k \in DOMAIN relEdges :
          \E c \in MatchedCalls : c.from_entity = k[1] /\ c.to_entity = k[3]
    /\ (MatchedCalls = {}) => relEdges = <<>>

\* the same invariant along load_pipeline
C13_PipelineEdges == EndpointsExist

\* a call from Nakamoto, which has no node, then a call between two nodes:
\* one edge
C13_Witness ==
    /\ Len(relLog) = 2
    /\ relLog[1].from_entity = Nakamoto
    /\ relLog[1].to_entity = PoW
    /\ relLog[2].from_entity = Btc
    /\ relLog[2].to_entity = PoW
    /\ Cardinality(DOMAIN relEdges) = 1

----------------------------------------------------------------------------
(* C16 *)

\* the edges from one entity to another, and the labels of the calls made
\* on that pair
EdgesOfPair(f, t) == {k \in DOMAIN relEdges : k[1] = f /\ k[3] = t}
LabelsOfPair(f, t) ==
    {c.rel_label : c \in {m \in MatchedCalls : m.from_entity = f /\ m.to_entity = t}}

\* C16: for every ordered pair of Entity nodes the graph holds one edge per
\* label that the calls of create_relationship on that pair normalized their
\* phrases to: calls with the same label leave one edge, calls with
\* different labels leave one edge each.
C16_OneEdgePerLabel ==
    \A f, t \in DOMAIN entityNodes :
        /\ Cardinality(EdgesOfPair(f, t)) = Cardinality(LabelsOfPair(f, t))
        /\ \A k \in EdgesOfPair(f, t) : k[2] \in LabelsOfPair(f, t)

\* "prevents" and "Prevents!" on Btc -> PoW leave one edge PREVENTS; "created
\* by" on the same pair leaves a second edge
C16_Witness ==
    /\ Len(relLog) = 3
    /\ \A i \in 1..3 : relLog[i].from_entity = Btc /\ relLog[i].to_entity = PoW
    /\ relLog[1].rel_type = Chars("prevents")
    /\ relLog[2].rel_type = Chars("Prevents!")
    /\ relLog[3].rel_type = Chars("created by")
    /\ relLog[1].rel_label = relLog[2].rel_label
    /\ Cardinality(EdgesOfPair(Btc, PoW)) = 2

----------------------------------------------------------------------------
(* C14 *)

\* the create_entity calls of the run made so far, as positions in the
\* statements of the storing loops
EntityCallsMade ==
    {k \in 1..written : StoreStatements[k].kind = "entity"}

\* the chunks of the run for which create_entity was called with name n
CreatedFor(n) ==
    {chunk_ids[StoreStatements[k].chunk_idx + 1] :
        k \in {j \in EntityCallsMade : StoreStatements[j].entity.name = n}}

ProvenanceInRun(n) ==
    {e \in extractedFrom : e[1] = n /\ e[2] \in Range(chunk_ids)}

EdgesMatchChunks ==
    \A n \in DOMAIN entityNodes :
        Cardinality(ProvenanceInRun(n)) = Cardinality(CreatedFor(n))

\* a step that is one call of create_entity
IsCreateEntity ==
    /\ pc = "store"
    /\ written < Len(StoreStatements)
    /\ StoreStatements[written + 1].kind = "entity"
    /\ written' = written + 1

CreateEntityMerges ==
    IsCreateEntity =>
        LET n == StoreStatements[written + 1].entity.name
            c == chunk_ids[StoreStatements[written + 1].chunk_idx + 1]
        IN /\ n \in DOMAIN entityNodes'
           /\ n \in DOMAIN entityNodes => DOMAIN entityNodes' = DOMAIN entityNodes
           /\ <<n, c>> \notin extractedFrom =>
                 /\ extractedFrom' = extractedFrom \cup {<<n, c>>}
                 /\ Cardinality(extractedFrom') = Cardinality(extractedFrom) + 1
           /\ <<n, c>> \in extractedFrom => extractedFrom' = extractedFrom

\* C14: a call of create_entity with a name that has an Entity node keeps
\* the nodes as they are and adds one EXTRACTED_FROM edge to the chunk of the
\* call when the entity has none to that chunk, and no edge when it has one;
\* the number of EXTRACTED_FROM edges from an entity to the chunks of a run
\* is the number of distinct chunks of the run it was created for.
C14_ProvenanceEdges == []EdgesMatchChunks /\ [][CreateEntityMerges]_vars

\* "PoW" created for the first chunk, then twice for the second: one node,
\* two edges
C14_Witness ==
    /\ pc = "done"
    /\ Succeeded(result)
    /\ Len(chunk_ids) = 3
    /\ Cardinality({k \in EntityCallsMade : StoreStatements[k].entity.name = PoW}) = 3
    /\ CreatedFor(PoW) = {chunk_ids[1], chunk_ids[2]}
    /\ Cardinality(ProvenanceInRun(PoW)) = 2

----------------------------------------------------------------------------
(* C15 *)

\* The document of the run that created chunk c: a run draws the id of its
\* document before the ids of its chunks, so it is the last document id
\* below c.
DocumentOfRun(c) ==
    CHOOSE d \in DOMAIN documents :
        d < c /\ \A x \in DOMAIN documents : x < c => x <= d

ChunksOf(d) == {c \in DOMAIN chunkNodes : DocumentOfRun(c) = d}

\* C15: after successful runs every Chunk node has exactly one incoming
\* HAS_CHUNK edge, from the Document of the run that created it; every NEXT
\* edge goes from a chunk of index i to the chunk of index i+1 of the same
\* document; a document with n chunks has n-1 NEXT edges.
C15_ChunkOwnershipAndOrder ==
    (/\ pc = "done"
     /\ Succeeded(result)
     /\ lastRun.ran => Succeeded(lastRun.result))
        =>
        /\ \A c \in DOMAIN chunkNodes :
              {e \in hasChunk : e[2] = c} = {<<DocumentOfRun(c), c>>}
        /\ \A e \in hasChunk : e[1] \in DOMAIN documents /\ e[2] \in DOMAIN chunkNodes
        /\ \A e \in nextEdges :
              /\ e[1] \in DOMAIN chunkNodes /\ e[2] \in DOMAIN chunkNodes
              /\ DocumentOfRun(e[1]) = DocumentOfRun(e[2])
              /\ chunkNodes[e[2]].index = chunkNodes[e[1]].index + 1
        /\ \A d \in DOMAIN documents :
              /\ ChunksOf(d) # {}
              /\ Cardinality({e \in nextEdges : e[1] \in ChunksOf(d)})
                    = Cardinality(ChunksOf(d)) - 1
              /\ {chunkNodes[c].index : c \in ChunksOf(d)}
                    = 0..(Cardinality(ChunksOf(d)) - 1)

\* two successful runs, of three chunks and of one chunk
C15_Witness ==
    /\ pc = "done"
    /\ Succeeded(result)
    /\ lastRun.ran
    /\ Succeeded(lastRun.result)
    /\ Cardinality(DOMAIN documents) = 2
    /\ Cardinality(DOMAIN chunkNodes) = 4
    /\ Cardinality(nextEdges) = 2

----------------------------------------------------------------------------
(* C17 *)

\* a page yields text: its extraction does not raise and its text has a
\* character that is not whitespace
Yields(page) ==
    ~page.raises /\ \E i \in 1..Len(page.text) : page.text[i] \notin Whitespace

\* the text between its first and its last character that is not whitespace
Trimmed(t) ==
    LET solid == {i \in 1..Len(t) : t[i] \notin Whitespace}
        lo == CHOOSE i \in solid : \A j \in solid : i <= j
        hi == CHOOSE i \in solid : \A j \in solid : j <= i
    IN SubSeq(t, lo, hi)

\* the text of the first n pages
RECURSIVE JoinedUpTo(_, _)
JoinedUpTo(pages, n) ==
    IF n = 0 THEN <<>>
    ELSE LET before == JoinedUpTo(pages, n - 1)
         IN IF ~Yields(pages[n]) THEN before
            ELSE IF before = <<>> THEN Trimmed(pages[n].text)
            ELSE before \o <<"\n", "\n">> \o Trimmed(pages[n].text)

\* C17: extract_text_from_pdf raises only when opening the container raises;
\* otherwise it returns the stripped texts of the pages that yield non-blank
\* text, in page order, joined by a blank line, skipping the pages whose
\* extraction raises, and "Empty PDF" when no page yields text.
C17_PageTextsJoined ==
    /\ pc = "raised" <=> (pc # "extract_text_from_pdf" /\ ~env.pdf.opens)
    /\ pc = "returned" =>
          LET pages == env.pdf.pages
          IN IF \E n \in 1..Len(pages) : Yields(pages[n])
             THEN text = JoinedUpTo(pages, Len(pages))
             ELSE text = Chars("Empty PDF")

\* a page with text around blanks, a page that raises, a page with text
C17_Witness ==
    /\ pc = "returned"
    /\ env.pdf.pages = <<Page(" a "), UnreadablePage, Page("b\n")>>
    /\ text = <<"a", "\n", "\n", "b">>


----------------------------------------------------------------------------
(* C19 *)
\* the batches passed to create_structured_nodes_batch for a label by the
\* load that is running or has just ended
IsBatchOf(label, call) ==
    call.op = "create_structured_nodes_batch" /\ call.label = label
BatchesOf(label) ==
    LET of_label(call) == IsBatchOf(label, call)
        found == SelectSeq(sqlCalls, of_label)
    IN [i \in 1..Len(found) |-> found[i].props_list]

\* a row as it was passed, without what _push_batch puts in and takes out
Columns(d) == [k \in DOMAIN d \ {"embedding", "embedding_text"} |-> d[k]]
ColumnsOfAll(ds) == [i \in 1..Len(ds) |-> Columns(ds[i])]

\* the tables whose loop over the rows has ended
TablesDone == 1..node_idx

BatchedInOrder(node_map) ==
    LET rows == sqlIn.tables[node_map.source_table]
        batches == BatchesOf(node_map.target_label)
    IN /\ \A b \in 1..Len(batches) :
             /\ Len(batches[b]) >= 1
             /\ Len(batches[b]) <= 100
             /\ b < Len(batches) => Len(batches[b]) = 100
       /\ ColumnsOfAll(Concat(batches))
             = [i \in 1..Len(rows) |-> Columns(RowProps(node_map.properties, rows[i]))]

\* C19: when the loop over the rows of a mapped table has ended, the batches
\* passed to create_structured_nodes_batch for it hold its rows, each once
\* and in fetch order; no batch is empty, none has more than 100 rows, every
\* batch but the last has exactly 100, and so the sizes sum to the number
\* of rows.
C19_BoundedBatches ==
    sqlPc \in {"run", "done"} =>
        \A j \in TablesDone : BatchedInOrder(sqlIn.mapping.nodes[j])

\* a table of more than 200 rows loaded in two full batches and a remainder
C19_Witness ==
    /\ sqlPc = "done"
    /\ Len(sqlIn.tables.users) > 200
    /\ Len(BatchesOf("User")) = 3
    /\ Len(BatchesOf("User")[3]) < 100


----------------------------------------------------------------------------
(* C20 *)
\* the column named id of a mapping, when it has one
NamedId(p) == Lower(Chars(p.column_name)) = Chars("id")
HasIdColumn(node_map) ==
    \E i \in 1..Len(node_map.properties) : NamedId(node_map.properties[i])
IdColumn(node_map) ==
    node_map.properties[
        CHOOSE i \in 1..Len(node_map.properties) :
           /\ NamedId(node_map.properties[i])
           /\ \A j \in 1..(i - 1) : ~NamedId(node_map.properties[j])]

\* the property the nodes of a mapping are merged on: the target property of
\* its column named id, else the property id
KeyProperty(node_map) ==
    IF HasIdColumn(node_map) THEN IdColumn(node_map).target_property ELSE "id"

\* the values the rows of a mapped table have in the column the key
\* property is taken from
KeyColumn(node_map) ==
    IF HasIdColumn(node_map) THEN IdColumn(node_map).column_name
    ELSE node_map.properties[
             CHOOSE i \in 1..Len(node_map.properties) :
                node_map.properties[i].target_property = "id"].column_name
KeyValues(node_map) ==
    LET rows == sqlIn.tables[node_map.source_table]
    IN {rows[i][KeyColumn(node_map)] : i \in 1..Len(rows)}

NodesOfLabel(label) == {k \in DOMAIN structNodes : k[1] = label}

\* one node per key value of the rows, holding the value under the key
\* property
OneNodePerKey(node_map) ==
    LET of_label == NodesOfLabel(node_map.target_label)
        key == KeyProperty(node_map)
        held == {structNodes[k][key] : k \in of_label}
    IN /\ \A k \in of_label : key \in DOMAIN structNodes[k]
       /\ Cardinality(held) = Cardinality(of_label)
       /\ held = KeyValues(node_map)

\* C20: after a load, each mapped table has one node per value of its key
\* property (the target property of the column named id), rows with the
\* same value sharing the node; after the same rows are loaded a second
\* time the nodes are those the first load left.
C20_ReloadIdempotent ==
    /\ sqlPc = "done" =>
          \A j \in 1..Len(sqlIn.mapping.nodes) :
             OneNodePerKey(sqlIn.mapping.nodes[j])
    /\ (sqlPc = "done" /\ loads > 1) =>
          structNodes = firstLoad.nodes

\* a table whose keys repeat, loaded a second time
C20_Witness ==
    /\ sqlPc = "done"
    /\ loads = 2
    /\ Cardinality(NodesOfLabel("User")) > 1
    /\ Cardinality(NodesOfLabel("User")) < Len(sqlIn.tables.users)
    /\ Len(sqlIn.tables.users) > 100


----------------------------------------------------------------------------
(* C18 *)
TableMapped(table) ==
    \E i \in 1..Len(sqlIn.mapping.nodes) :
       sqlIn.mapping.nodes[i].source_table = table
\* a relationship mapping whose source table or target table has no node
\* mapping
Unmapped(rel) == ~TableMapped(rel.source_table) \/ ~TableMapped(rel.target_table)

IsRelationshipCall(call) == call.op = "create_structured_relationship"
RelationshipCalls == SelectSeq(sqlCalls, IsRelationshipCall)

\* the iteration of the linking loop for the next relationship mapping
LinkStep ==
    /\ sqlPc = "run"
    /\ node_idx = Len(sqlIn.mapping.nodes)
    /\ rel_idx' = rel_idx + 1 \/ sqlPc' = "raised"

SkippedQuietly ==
    (LinkStep /\ Unmapped(sqlIn.mapping.relationships[rel_idx + 1])) =>
        /\ sqlPc' = "run"
        /\ rel_idx' = rel_idx + 1
        /\ sqlCalls' = sqlCalls
        /\ structEdges' = structEdges

\* the mappings after an unmapped one are processed: the loop ends past the
\* last mapping, with a call for every mapping whose tables are both mapped
\* and whose columns are both mapped
ColumnMapped(table, column) ==
    \E i \in 1..Len(sqlIn.mapping.nodes) :
       /\ sqlIn.mapping.nodes[i].source_table = table
       /\ \E j \in 1..Len(sqlIn.mapping.nodes[i].properties) :
             sqlIn.mapping.nodes[i].properties[j].column_name = column
Linkable(rel) ==
    /\ ColumnMapped(rel.source_table, rel.source_column)
    /\ ColumnMapped(rel.target_table, rel.target_column)
LaterProcessed ==
    /\ (sqlPc = "raised" => node_idx < Len(sqlIn.mapping.nodes))
    /\ (sqlPc = "done" =>
          LET linkable == SelectSeq(sqlIn.mapping.relationships, Linkable)
          IN /\ rel_idx = Len(sqlIn.mapping.relationships)
             /\ Len(RelationshipCalls) = Len(linkable)
             /\ \A i \in 1..Len(linkable) :
                   RelationshipCalls[i].rel_type = linkable[i].relationship_type)

\* C18: the iteration of the linking loop for a relationship mapping whose
\* source or target table has no node mapping raises nothing, makes no call
\* on the service and writes no edge; the loop goes on to the next mapping,
\* so that at the end every mapping has been visited and every mapping that
\* can be linked has had its call.
C18_UnmappedSkipped == []LaterProcessed /\ [][SkippedQuietly]_vars

\* a load that skipped a mapping without a target table and then linked the
\* orders to the users
C18_Witness ==
    /\ sqlPc = "done"
    /\ Len(sqlIn.mapping.relationships) = 2
    /\ Unmapped(sqlIn.mapping.relationships[1])
    /\ ~Unmapped(sqlIn.mapping.relationships[2])
    /\ Len(RelationshipCalls) = 1
    /\ structEdges # {}


----------------------------------------------------------------------------
(* C21 *)
StopTerms ==
    {"the", "this", "that", "these", "those", "it", "its",
     "system", "method", "approach", "technique", "process"}
EqualsIgnoringCase(name, term) == Lower(name) = Lower(Chars(term))
KeptEntity(e) ==
    /\ Len(e.name) >= 3
    /\ \A term \in StopTerms : ~EqualsIgnoringCase(e.name, term)

\* the chunks whose answer was an ExtractedEntities
Answered == {i \in 1..Len(chunk_extractions) : env.llm[i].kind = "ok"}

\* C21: the entities returned for a chunk are those of the model's answer
\* whose name has at least 3 characters and is not, ignoring case, a term of
\* the stoplist; all of these and no other, in the order of the answer.
C21_EntityFilter ==
    \A i \in Answered :
       /\ \A e \in Range(chunk_extractions[i].entities) : KeptEntity(e)
       /\ chunk_extractions[i].entities = SelectSeq(env.llm[i].entities, KeptEntity)

\* an answer with "System" (a stoplist term in another case) or "AI" (two
\* characters) before an entity that is kept
C21_Witness ==
    /\ pc = "returned"
    /\ 1 \in Answered
    /\ Len(env.llm[1].entities) = 2
    /\ env.llm[1].entities[1].name \in {Chars("System"), Chars("AI")}
    /\ chunk_extractions[1].entities = <<env.llm[1].entities[2]>>

----------------------------------------------------------------------------
(* C22 *)
StopVerbs ==
    {"related", "connected", "associated", "linked", "has", "uses", "involves"}
GenericType(rel) == \E verb \in StopVerbs : EqualsIgnoringCase(rel.type, verb)

\* C22: no relationship returned for a chunk has a type that is, ignoring
\* case, a term of the generic-verb stoplist; and every relationship of the
\* model's answer that has both endpoints among the names of the entities
\* returned and a type outside the stoplist is returned.
C22_RelationshipFilter ==
    \A i \in Answered :
       LET names == NamesOf(chunk_extractions[i].entities)
       IN /\ \A rel \in Range(chunk_extractions[i].relationships) : ~GenericType(rel)
          /\ \A k \in 1..Len(env.llm[i].relationships) :
                LET rel == env.llm[i].relationships[k]
                IN (/\ rel.from_entity \in names
                    /\ rel.to_entity \in names
                    /\ ~GenericType(rel))
                      => rel \in Range(chunk_extractions[i].relationships)

\* an answer with a relationship of type "Uses" between two kept entities,
\* dropped, and one of type "prevents", kept
C22_Witness ==
    /\ pc = "returned"
    /\ \E i \in Answered :
          /\ \E rel \in Range(env.llm[i].relationships) :
                /\ GenericType(rel)
                /\ rel.from_entity \in NamesOf(chunk_extractions[i].entities)
                /\ rel.to_entity \in NamesOf(chunk_extractions[i].entities)
          /\ chunk_extractions[i].relationships # <<>>


----------------------------------------------------------------------------
(* C23 *)
HitChunks == {search.vector_results[i].chunk_id : i \in 1..Len(search.vector_results)}

\* the Entity nodes with an EXTRACTED_FROM edge to a returned chunk
EntitiesOfHits ==
    {e \in DOMAIN entityNodes : \E c \in HitChunks : <<e, c>> \in extractedFrom}

\* the edges of the graph that touch an Entity node, as (start node, type,
\* end node); a node that is not an Entity has no name
EntityEdges ==
    {[start |-> k[1], type |-> k[2], end |-> k[3], from |-> k[1], to |-> k[3]] :
        k \in DOMAIN relEdges}
      \cup
    {[start |-> x[1], type |-> Chars("EXTRACTED_FROM"), end |-> <<"Chunk", x[2]>>,
      from |-> x[1], to |-> NoName] : x \in extractedFrom}

\* a row is the first edge of a path that starts at one of the entities
FirstEdgeFrom(row, names) ==
    \E edge \in EntityEdges :
       /\ edge.start \in names \/ edge.end \in names
       /\ row = [from |-> edge.from, type |-> edge.type, to |-> edge.to]

SearchHit ==
    search.searched /\ search.vector_results # <<>> /\ search.result.kind = "return"

----------------------------------------------------------------------------
(* C24 *)
HasEmbedding(d) == "embedding" \in DOMAIN d

IndexEnsuredBy(position, label) ==
    \E i \in 1..position : sqlCalls[i] = EnsureIndexCall(label)

\* the batch of a call is written, and the index, when the call ensures it,
\* is ensured by the call itself
EnsuredWith(position) ==
    /\ position < Len(sqlCalls)
    /\ sqlCalls[position + 1] = EnsureIndexCall(sqlCalls[position].label)

\* C24: for every batch passed to create_structured_nodes_batch that holds a
\* row with an embedding, the vector index of the label has been ensured by
\* then; and every label that has a node with an embedding has had its
\* vector index ensured during the load that wrote the node.
C24_IndexEnsured ==
    /\ \A i \in 1..Len(sqlCalls) :
          (/\ sqlCalls[i].op = "create_structured_nodes_batch"
           /\ \E k \in 1..Len(sqlCalls[i].props_list) :
                 HasEmbedding(sqlCalls[i].props_list[k]))
              => IndexEnsuredBy(i, sqlCalls[i].label) \/ EnsuredWith(i)
    /\ (sqlPc = "done" /\ loads = 1) =>
          \A k \in DOMAIN structNodes :
             HasEmbedding(structNodes[k]) => IndexEnsuredBy(Len(sqlCalls), k[1])

----------------------------------------------------------------------------
(* C27 *)
LabelAlphabet == AllowedLabelChars \cup {"_"}

\* C27: the label of every edge that create_relationship and
\* create_structured_relationship merged consists of A-Z, 0-9 and
\* underscore only.
C27_SplicedLabelsNormalized ==
    /\ \A k \in DOMAIN relEdges : Range(k[2]) \subseteq LabelAlphabet
    /\ \A e \in structEdges : Range(Chars(e[2])) \subseteq LabelAlphabet
    /\ \A i \in 1..Len(sqlCalls) :
          sqlCalls[i].op = "create_structured_relationship"
             => Range(Chars(sqlCalls[i].rel_type)) \subseteq LabelAlphabet


----------------------------------------------------------------------------
(* C26 *)
\* a call of load_pipeline was made and the text extracted is empty or is
\* the sentinel
CallWithoutText == runs > 0 /\ result.kind # "raise" /\ (text = <<>> \/ text = EmptyPdf)

\* C26: a call of load_pipeline whose extracted text is empty or the
\* sentinel "Empty PDF" has returned the failure dict with success False, an
\* error message and the doc_id of the call; it has chunked, embedded and
\* extracted nothing, and the graph has the nodes and edges it had before
\* the call.
C26_NoTextNoWork ==
    CallWithoutText =>
        /\ pc = "done"
        /\ result.kind = "return"
        /\ result.value.success = FALSE
        /\ "error" \in DOMAIN result.value
        /\ result.value.doc_id = doc_id
        /\ chunks = <<>>
        /\ chunk_embeddings = <<>>
        /\ chunk_extractions = <<>>
        /\ chunk_ids = <<>>
        /\ GraphCounts = CountsBeforeRun

\* a PDF without text, or one that reads "Empty PDF", given to load_pipeline
\* after a document was ingested
C26_Witness ==
    /\ CallWithoutText
    /\ text = EmptyPdf
    /\ runs = 2
    /\ GraphCounts.documents = 1
    /\ GraphCounts.chunks > 0

(* C25 *)
\* the run has ended and one of the vectors embed_text gave it has another
\* length than the vector index
RunWithOtherLength ==
    /\ pc = "done"
    /\ \E i \in 1..Len(chunk_embeddings) : chunk_embeddings[i].dim # EMBED_DIM

\* C25: no Chunk node of the graph has an embedding whose length differs
\* from the dimension of the vector index (1536), and a run of
\* load_pipeline that had such a vector to store has not returned success.
C25_DimensionChecked ==
    /\ \A c \in DOMAIN chunkNodes : chunkNodes[c].embedding.dim = EMBED_DIM
    /\ RunWithOtherLength => ~Succeeded(result)

(* C28 *)
\* the Chunk nodes the document of the current call owns
ChunksOfCall == {c \in DOMAIN chunkNodes : <<doc_id, c>> \in hasChunk}

\* one Chunk node per chunk of the call, with the chunk's text and its
\* position counted from 0
OneNodePerChunk ==
    /\ Len(chunk_ids) = Len(chunks)
    /\ Cardinality(ChunksOfCall) = Len(chunks)
    /\ \A i \in 1..Len(chunks) :
          /\ chunk_ids[i] \in ChunksOfCall
          /\ chunkNodes[chunk_ids[i]].index = i - 1
          /\ chunkNodes[chunk_ids[i]].text = chunks[i]

\* C28: when load_pipeline has returned success=True, the document of the
\* call owns exactly one Chunk node per chunk, with the indexes 0..n-1, and
\* n is the chunks_count it reports; a call whose embedder returned fewer
\* vectors than chunks has not returned success=True.
C28_OneChunkNodePerChunk ==
    pc = "done" =>
        /\ Succeeded(result) =>
              /\ OneNodePerChunk
              /\ result.value.stats.chunks_count = Len(chunks)
        /\ Len(chunk_embeddings) < Len(chunks) => ~Succeeded(result)

\* a call with three chunks that succeeded, after a call in which the
\* embedder left a vector out
C28_Witness ==
    /\ pc = "done"
    /\ Succeeded(result)
    /\ Len(chunks) = 3
    /\ lastRun.ran
    /\ lastRun.env.faults.batch_missing > 0
    /\ ~Succeeded(lastRun.result)
    /\ GraphCounts.chunks > Len(chunks)

(* C29 *)
\* the first call of load_pipeline, on the empty graph, has returned success
SucceededOnEmptyGraph == pc = "done" /\ runs = 1 /\ Succeeded(result)

\* C29: after a successful load_pipeline on an empty graph the graph holds
\* as many Entity nodes as the entities_count reported, and every entity of
\* the merged list is a node with its name and its type.
C29_NodesMatchMerged ==
    SucceededOnEmptyGraph =>
        /\ Cardinality(DOMAIN entityNodes) = result.value.stats.entities_count
        /\ \A i \in 1..Len(merged_data.entities) :
              /\ merged_data.entities[i].name \in DOMAIN entityNodes
              /\ entityNodes[merged_data.entities[i].name] = merged_data.entities[i].type

(* C30 *)
\* no NEXT edge leaves a chunk of the call, no entity is linked to one
NoNextOfCall == \A e \in nextEdges : e[1] \notin ChunksOfCall
NoEntityOfCall == \A e \in extractedFrom : e[2] \notin ChunksOfCall

\* the NEXT edges between the chunks of the call are in the graph
NextOfCallStored ==
    /\ Len(chunk_ids) = ZipLen
    /\ \A i \in 1..(Len(chunk_ids) - 1) : <<chunk_ids[i], chunk_ids[i + 1]>> \in nextEdges

\* the create_relationship calls made so far in the call
RelationshipsCalled ==
    Cardinality({j \in 1..written : StoreStatements[j].kind = "relationship"})

\* every entity of every extraction is a node linked to its chunk
AllEntitiesStored ==
    \A x \in 1..Len(chunk_extractions) :
        \A k \in 1..Len(chunk_extractions[x].entities) :
            /\ chunk_extractions[x].entities[k].name \in DOMAIN entityNodes
            /\ <<chunk_extractions[x].entities[k].name,
                  chunk_ids[chunk_extractions[x].chunk_index + 1]>> \in extractedFrom

\* a Chunk node is written: the Document node is there, the node has the
\* next index, and no NEXT edge and no entity of the call is
ChunkWrite ==
    chunkNodes' # chunkNodes =>
        /\ doc_id \in DOMAIN documents
        /\ \E c \in DOMAIN chunkNodes' \ DOMAIN chunkNodes :
              chunkNodes'[c].index = Cardinality(ChunksOfCall)
        /\ NoNextOfCall
        /\ NoEntityOfCall

\* NEXT edges are written: every Chunk node of the call is there, no entity
NextWrite ==
    nextEdges' # nextEdges =>
        /\ Cardinality(ChunksOfCall) = ZipLen
        /\ NoEntityOfCall

\* an entity is written: the NEXT edges are there, no relationship was
EntityWrite ==
    (entityNodes' # entityNodes \/ extractedFrom' # extractedFrom) =>
        /\ NextOfCallStored
        /\ RelationshipsCalled = 0

\* create_relationship is called: every entity is stored, the relationship
\* is the next of the merged list, both MATCH clauses bind and the edge is
\* in the graph afterwards
RelationshipWrite ==
    (pc = "store" /\ written' = written + 1
        /\ StoreStatements[written + 1].kind = "relationship") =>
        LET rel == StoreStatements[written + 1].rel
        IN /\ AllEntitiesStored
           /\ rel = merged_data.relationships[RelationshipsCalled + 1]
           /\ BothMatched(rel.from_entity, rel.to_entity)
           /\ <<rel.from_entity, _normalize_rel_type(rel.type), rel.to_entity>>
                 \in DOMAIN relEdges'

\* C30: load_pipeline writes the Document node, then the Chunk nodes in
\* index order, then the NEXT edges, then all entities, then the
\* relationships in the order of the merged list; every create_relationship
\* finds both endpoint Entity nodes stored and leaves its edge in the graph.
C30_StoreOrder ==
    [][ChunkWrite /\ NextWrite /\ EntityWrite /\ RelationshipWrite]_vars

\* a first call that stored three chunks, their entities and the two
\* relationships of its merged list
C30_Witness ==
    /\ SucceededOnEmptyGraph
    /\ Len(chunk_ids) = 3
    /\ Len(merged_data.relationships) = 2
    /\ \A k \in 1..Len(merged_data.relationships) :
          <<merged_data.relationships[k].from_entity,
            _normalize_rel_type(merged_data.relationships[k].type),
            merged_data.relationships[k].to_entity>> \in DOMAIN relEdges

============================================================================
